---- MODULE Spec2Model ----
(***************************************************************************)
(* A model of the weekly-report collector (src/src/collectors.ts).  The    *)
(* file holds two revisions of the collector: the "detail" revision        *)
(* (lines 1-395: merge requests, per-item reconciliation, tracker) and the *)
(* "commit" revision (lines 397-797: merge requests, local git, tracker).  *)
(* One run of collectAll is a state machine whose steps are the awaited    *)
(* remote calls; the answers of the remote services are chosen by the      *)
(* environment when the call is made.                                      *)
(*                                                                         *)
(* Text is modelled as a sequence of one-character strings so that the     *)
(* regular expressions and string operations of the code are computed and  *)
(* not assumed.                                                            *)
(*                                                                         *)
(* Around the collector are the commands of src/src/cli.ts (draft,         *)
(* preview, send, run), the renderer (src/src/render.ts) and the mailer    *)
(* (src/src/mailer.ts).  Every invocation of a command is a new process:   *)
(* its locals start afresh, and only the drafts directory and the thread   *)
(* state file are carried from one invocation to the next.                 *)
(***************************************************************************)
EXTENDS Integers, Sequences, FiniteSets, TLC

VARIABLES
    pc,          \* position of the run inside collectAll
    variant,     \* which revision of collectAll runs: "detail" or "commit"
    range,       \* DateRange [from, to], in days
    listing,     \* the merge requests the code host answered the listing with
    mrs,         \* WeeklyData.mrs
    idx,         \* position of the for-loop of collectMRDetails in featureMRs
    cur,         \* commits of the item in hand while its refs are awaited
    details,     \* the local list `details` of collectMRDetails
    mrDetails,   \* WeeklyData.mrDetails
    keys,        \* the key set of collectJiraIssues, in insertion order
    jiraIssues,  \* WeeklyData.jiraIssues
    commits,     \* WeeklyData.commits (commit revision)
    gitSummary,  \* WeeklyData.gitSummary (commit revision)
    reqs,        \* every remote request issued so far, in order
    refsSeen,    \* iid -> the branch names the refs request answered
    rawCommits,  \* iid -> the commit list the code host answered
    clones,      \* the directory entries discoverRepos looked at
    warnings,    \* the sources whose failure was caught and logged
    inflight,    \* the remote requests issued and not yet answered
    cmd,         \* the command of the invocation: draft, preview, send, run
    cpc,         \* position of the invocation inside cli.ts
    dotenv,      \* the .env file of the invocation
    window,      \* the DateRange resolveDateRange returned
    config,      \* the Config loadConfig returned
    files,       \* the drafts directory: file name -> content
    threadFile,  \* .mail-thread.json
    thread,      \* the local `thread` of sendMail
    headers,     \* the local `headers` of sendMail
    outbox,      \* the messages the mail relay accepted, over all invocations
    transports,  \* the transports nodemailer.createTransport made
    exit,        \* how the invocation ended
    markdown,    \* the local `markdown` of cmdDraft / cmdSend
    draftPath,   \* the local `draftPath` of cmdPreview / cmdSend / cmdRun
    answers,     \* what ask returned at the prompts of the invocation, in order
    mailRange,   \* the local `range` of cmdSend
    runs,        \* the invocations started so far
    saved,       \* the end days saveDraft was called with, over all invocations
    renderings,  \* the (data, markdown) pairs of the generateMarkdown calls
    threadInit   \* .mail-thread.json before the first invocation

\* the state of one collectAll run
collector == <<pc, variant, range, listing, mrs, idx, cur, details, mrDetails, keys,
               jiraIssues, commits, gitSummary, reqs, refsSeen,
               rawCommits, clones, warnings, inflight>>

\* the state of the command line around it and of the files it keeps
shell == <<cmd, cpc, dotenv, window, config, files, threadFile, thread, headers, outbox,
           transports, exit, markdown, draftPath, answers, mailRange, runs, saved,
           renderings, threadInit>>

vars == <<collector, shell>>

(***************************************************************************)
(* Bounds of the model.                                                    *)
(***************************************************************************)
MaxMRs == 2        \* merge requests in one listing answer
MaxDay == 2        \* calendar days 0..MaxDay
TicksPerDay == 2   \* instants per day; the last one is 23:59:59
MaxRepos == 2      \* directory entries under GIT_REPOS_DIR
MaxCommits == 2    \* commits in one commit-list answer
MaxRuns == 3       \* invocations of the command line, one after the other

(***************************************************************************)
(* Text.                                                                   *)
(***************************************************************************)
UpperSeq == <<"A","B","C","D","E","F","G","H","I","J","K","L","M",
              "N","O","P","Q","R","S","T","U","V","W","X","Y","Z">>
LowerSeq == <<"a","b","c","d","e","f","g","h","i","j","k","l","m",
              "n","o","p","q","r","s","t","u","v","w","x","y","z">>
Upper == {UpperSeq[k] : k \in DOMAIN UpperSeq}
Digit == {"0","1","2","3","4","5","6","7","8","9"}

\* String.prototype.toLowerCase, one character
ToLowerChar(c) ==
    IF c \in Upper THEN LowerSeq[CHOOSE k \in DOMAIN UpperSeq : UpperSeq[k] = c]
    ELSE c

\* String.prototype.toLowerCase
ToLower(s) == [k \in DOMAIN s |-> ToLowerChar(s[k])]

\* the index of the first occurrence of character c in s, or Len(s)+1
IndexOf(s, c) ==
    IF \E k \in DOMAIN s : s[k] = c
    THEN CHOOSE k \in DOMAIN s : s[k] = c /\ \A j \in 1..(k-1) : s[j] # c
    ELSE Len(s) + 1

\* s.split(c)[0]: the text before the first c
SplitFirst(s, c) == SubSeq(s, 1, IndexOf(s, c) - 1)

\* s.startsWith(p)
StartsWith(s, p) == Len(s) >= Len(p) /\ SubSeq(s, 1, Len(p)) = p

\* the first index at or after p whose character is not in Class
RECURSIVE RunEnd(_, _, _)
RunEnd(s, p, Class) ==
    IF p <= Len(s) /\ s[p] \in Class THEN RunEnd(s, p + 1, Class) ELSE p

SP == " "
NL == "\n"
NullText == <<"\\0">>   \* a null description
Truthy(s) == s # NullText /\ s # <<>>
\* (s || '')
OrEmpty(s) == IF Truthy(s) THEN s ELSE <<>>

(***************************************************************************)
(* Values of the data model.                                               *)
(***************************************************************************)
Main        == <<"m","a","i","n">>
Master      == <<"m","a","s","t","e","r">>
GrayRelease == <<"g","r","a","y","-","r","e","l","e","a","s","e">>
Release     == <<"r","e","l","e","a","s","e">>
Feature     == <<"f","/","A","B","-","7">>     \* a feature branch, with a key

\* MRDetail.deployStatus: 开发中 | 已提测 | 灰度中 | 已上线
InDevelopment == "in development"
InTesting     == "in testing"
InRollout     == "in staged rollout"
Released      == "released"

NoTime == -1        \* merged_at: null
NoSha  == "null"    \* merge_commit_sha: null

\* config.LDAP_USERNAME
Username == <<"A","l">>

\* the .env file: absent
NoEnv ==
    [present |-> FALSE, required |-> FALSE, SMTP_USER |-> <<>>, SMTP_PASS |-> <<>>,
     MAIL_TO |-> <<>>, MAIL_THREAD |-> FALSE]

\* Config, as far as cli.ts, render.ts and mailer.ts read it; before
\* loadConfig returns nothing is loaded
NoConfig ==
    [loaded |-> FALSE, JIRA_HOST |-> <<>>, SMTP_USER |-> <<>>, SMTP_PASS |-> <<>>,
     MAIL_TO |-> <<>>, MAIL_THREAD |-> FALSE]

\* .mail-thread.json: absent, not JSON, the JSON value null, or an object
NoThreadFile == [kind |-> "absent", messageId |-> <<>>, references |-> <<>>]

\* the value {} of loadThread, and of `thread` before it is assigned
NoThread == [messageId |-> <<>>, references |-> <<>>]

\* const headers = {}
NoHeaders == [set |-> FALSE, inReplyTo |-> <<>>, references |-> <<>>]

\* the local `range` of cmdSend before it is assigned
NoRange == [from |-> <<>>, to |-> <<>>]

(***************************************************************************)
(* collectGitLabMRs: the local re-filter of the listing.                   *)
(***************************************************************************)
\* new Date(`${range.from}T00:00:00Z`)
FromDate(r) == r.from * TicksPerDay
\* toDate built as `${range.to}T00:00:00Z`
ToDate_Midnight(r) == r.to * TicksPerDay

\* new Date(`${range.to}T23:59:59Z`)
ToDate(r) == r.to * TicksPerDay + (TicksPerDay - 1)

InWindow(t, r) == t >= FromDate(r) /\ t <= ToDate(r)

\* the predicate of data.filter
Retained(mr, r) ==
    IF mr.state = "closed" THEN FALSE
    ELSE \/ InWindow(mr.created_at, r)
         \/ (mr.merged_at # NoTime /\ InWindow(mr.merged_at, r))
         \/ InWindow(mr.updated_at, r)

\* GitLabMR -> MRItem (url and projectId carry no behaviour and are left out)
MRItemOf(mr) ==
    [iid |-> mr.iid, title |-> mr.title, description |-> mr.description,
     state |-> mr.state, sourceBranch |-> mr.source_branch,
     targetBranch |-> mr.target_branch, createdAt |-> mr.created_at,
     mergedAt |-> mr.merged_at, mergeCommitSha |-> mr.merge_commit_sha]

FilterMRs(data, r) ==
    LET kept == SelectSeq(data, LAMBDA mr : Retained(mr, r))
    IN  [k \in DOMAIN kept |-> MRItemOf(kept[k])]

(***************************************************************************)
(* collectMRDetails and its helpers.                                       *)
(***************************************************************************)
FLOW_BRANCHES == {Main, Master, GrayRelease, Release}

isMergeBranchMR(mr) ==
    mr.sourceBranch \in FLOW_BRANCHES /\ mr.targetBranch \in FLOW_BRANCHES

MergeBranchPrefix ==
    <<"M","e","r","g","e"," ","b","r","a","n","c","h"," ">>
MergeRemotePrefix ==
    <<"M","e","r","g","e"," ","r","e","m","o","t","e","-",
      "t","r","a","c","k","i","n","g"," ","b","r","a","n","c","h"," ">>

\* NOISE_COMMIT_RE without the optional group: /^Merge branch /
NOISE_COMMIT_RE_BranchOnly(msg) == StartsWith(msg, MergeBranchPrefix)

\* NOISE_COMMIT_RE.test(msg): /^Merge (remote-tracking )?branch /
NOISE_COMMIT_RE(msg) ==
    StartsWith(msg, MergeBranchPrefix) \/ StartsWith(msg, MergeRemotePrefix)

\* fetchMRCommits without the author filter
FilterMRCommits_AnyAuthor(data) ==
    LET mapped == [k \in DOMAIN data |->
                     [sha |-> data[k].id, message |-> SplitFirst(data[k].message, NL)]]
    IN  SelectSeq(mapped, LAMBDA c : ~NOISE_COMMIT_RE(c.message))

\* the filter/map/filter chain of fetchMRCommits
FilterMRCommits(data) ==
    LET username == ToLower(Username)
        own == SelectSeq(data,
                 LAMBDA c : SplitFirst(ToLower(c.author_email), "@") = username)
        mapped == [k \in DOMAIN own |->
                     [sha |-> own[k].id, message |-> SplitFirst(own[k].message, NL)]]
    IN  SelectSeq(mapped, LAMBDA c : ~NOISE_COMMIT_RE(c.message))

\* resolveDeployStatus with the integration branches tested first
resolveDeployStatus_TestingFirst(branches) ==
    IF Main \in branches \/ Master \in branches THEN InTesting
    ELSE IF Release \in branches THEN Released
    ELSE IF GrayRelease \in branches THEN InRollout
    ELSE InDevelopment

\* resolveDeployStatus with the integration branches tested before gray-release
resolveDeployStatus_TestingBeforeRollout(branches) ==
    IF Release \in branches THEN Released
    ELSE IF Main \in branches \/ Master \in branches THEN InTesting
    ELSE IF GrayRelease \in branches THEN InRollout
    ELSE InDevelopment

resolveDeployStatus(branches) ==
    IF Release \in branches THEN Released
    ELSE IF GrayRelease \in branches THEN InRollout
    ELSE IF Main \in branches \/ Master \in branches THEN InTesting
    ELSE InDevelopment

\* the item's refs are requested: state merged and a merge commit SHA
NeedsRefs(mr) == mr.state = "merged" /\ mr.mergeCommitSha # NoSha

\* StatusWithoutRefs without the test of the lifecycle state
StatusWithoutRefs_TargetAlways(mr) == resolveDeployStatus({mr.targetBranch})

\* StatusWithoutRefs without the fallback to the target branch
StatusWithoutRefs_NoFallback(mr) == InDevelopment

\* deployStatus on the two branches of the if that issue no request
StatusWithoutRefs(mr) ==
    IF mr.state # "merged" THEN InDevelopment
    ELSE resolveDeployStatus({mr.targetBranch})

\* isHotfixOf with main as the only primary integration branch
isHotfixOf_MainOnly(mr) == mr.targetBranch # Main

\* isHotfix: mr.targetBranch !== 'main' && mr.targetBranch !== 'master'
isHotfixOf(mr) == mr.targetBranch # Main /\ mr.targetBranch # Master

MRDetailOf(mr, cs, status) ==
    [mr |-> mr, commits |-> cs, deployStatus |-> status, isHotfix |-> isHotfixOf(mr)]

\* the loop of collectMRDetails run over mrs instead of featureMRs
featureMRs_Unfiltered == mrs

\* const featureMRs = mrs.filter(mr => !isMergeBranchMR(mr))
featureMRs == SelectSeq(mrs, LAMBDA mr : ~isMergeBranchMR(mr))

(***************************************************************************)
(* collectJiraIssues: key extraction.                                      *)
(***************************************************************************)
\* the end (exclusive) of a match of /[A-Z][A-Z0-9]+-\d+/ starting at p, or 0
KeyMatchEnd(s, p) ==
    IF p <= Len(s) /\ s[p] \in Upper
    THEN LET q == RunEnd(s, p + 1, Upper \cup Digit)
         IN  IF q > p + 1 /\ q <= Len(s) /\ s[q] = "-"
             THEN LET d == RunEnd(s, q + 1, Digit)
                  IN  IF d > q + 1 THEN d ELSE 0
             ELSE 0
    ELSE 0

SeqHas(acc, x) == \E k \in DOMAIN acc : acc[k] = x

\* for (const match of text.matchAll(keyPattern)) keysSet.add(match[0])
RECURSIVE AddMatches(_, _, _)
AddMatches(acc, s, p) ==
    IF p > Len(s) THEN acc
    ELSE LET e == KeyMatchEnd(s, p)
         IN  IF e = 0 THEN AddMatches(acc, s, p + 1)
             ELSE LET key == SubSeq(s, p, e - 1)
                  IN  AddMatches(IF SeqHas(acc, key) THEN acc ELSE Append(acc, key),
                                 s, e)

\* the scanned text without the description
MRText_NoDescription(mr) == mr.title \o <<SP>> \o mr.sourceBranch \o <<SP>>

\* `${mr.title} ${mr.sourceBranch} ${mr.description || ''}`
MRText(mr) == mr.title \o <<SP>> \o mr.sourceBranch \o <<SP>> \o OrEmpty(mr.description)

RECURSIVE KeysOfMRs(_, _)
KeysOfMRs(acc, list) ==
    IF list = <<>> THEN acc
    ELSE KeysOfMRs(AddMatches(acc, MRText(Head(list)), 1), Tail(list))

RECURSIVE KeysOfCommits(_, _)
KeysOfCommits(acc, list) ==
    IF list = <<>> THEN acc
    ELSE KeysOfCommits(AddMatches(acc, Head(list).message, 1), Tail(list))

\* data.issues.map(...)
JiraItemsOf(issues) ==
    [k \in DOMAIN issues |->
       [key |-> issues[k].key, summary |-> issues[k].fields.summary,
        type |-> issues[k].fields.issuetype.name,
        status |-> issues[k].fields.status.name]]

(***************************************************************************)
(* collectGitCommits and its helpers (commit revision).                    *)
(***************************************************************************)
\* new URL(config.GITLAB_HOST).hostname
Hostname == <<"g","l">>
NoRemote == <<"\\0">>     \* getGitRemoteUrl returned null

\* remoteUrl.includes(hostname)
Includes(s, sub) ==
    \E k \in 1..(Len(s) - Len(sub) + 1) : SubSeq(s, k, k + Len(sub) - 1) = sub

isGitLabRepo(remoteUrl) == Includes(remoteUrl, Hostname)

\* the test of one directory entry in discoverRepos
Discovered(entry) ==
    /\ entry.isDirectory
    /\ entry.hasGit
    /\ entry.remote # NoRemote
    /\ entry.remote # <<>>
    /\ isGitLabRepo(entry.remote)

discoverRepos(dirState, entries) ==
    IF dirState \in {"unset", "missing"} THEN <<>>
    ELSE SelectSeq(entries, Discovered)

\* output.trim().split('\n').filter(Boolean): the non-empty lines of the log
RECURSIVE LogLines(_)
LogLines(out) ==
    IF out = <<>> THEN <<>>
    ELSE LET line == SplitFirst(out, NL)
             rest == SubSeq(out, Len(line) + 2, Len(out))
         IN  IF line = <<>> THEN LogLines(rest) ELSE <<line>> \o LogLines(rest)

\* the commits and the summary line one repository adds
RepoCommits(entry) ==
    IF entry.logFails THEN <<>>
    ELSE LET lines == LogLines(entry.log)
         IN  [k \in DOMAIN lines |-> [repo |-> entry.name, message |-> lines[k]]]

RepoSummary(entry) ==
    IF entry.logFails \/ LogLines(entry.log) = <<>> THEN <<>>
    ELSE <<[repo |-> entry.name, commitCount |-> Len(LogLines(entry.log))]>>

RECURSIVE GitCommitsOf(_)
GitCommitsOf(repos) ==
    IF repos = <<>> THEN <<>>
    ELSE RepoCommits(Head(repos)) \o GitCommitsOf(Tail(repos))

RECURSIVE GitSummaryOf(_)
GitSummaryOf(repos) ==
    IF repos = <<>> THEN <<>>
    ELSE RepoSummary(Head(repos)) \o GitSummaryOf(Tail(repos))

(***************************************************************************)
(* Dates as text, and the order of Array.prototype.sort on file names.     *)
(***************************************************************************)
DigitSeq == <<"0","1","2","3","4","5","6","7","8","9">>

\* a number below 100 written with two digits
Pad2(n) == <<DigitSeq[(n \div 10) + 1], DigitSeq[(n % 10) + 1]>>

\* day k of the model as yyyy-MM-dd: day 0 is 2025-12-30, so that the days
\* of the model cross the end of a month and of a year
DateText(k) ==
    IF k <= 1
    THEN <<"2","0","2","5","-","1","2","-">> \o Pad2(30 + k)
    ELSE <<"2","0","2","6","-","0","1","-">> \o Pad2(k - 1)

\* the UTF-16 code units of the characters file names are made of, in order
CodeOrder ==
    <<"-", ".">> \o DigitSeq \o UpperSeq \o LowerSeq

CodeOf(c) == CHOOSE k \in DOMAIN CodeOrder : CodeOrder[k] = c

\* a < b as sort() without a comparator orders two strings
RECURSIVE SortsBefore(_, _)
SortsBefore(a, b) ==
    IF b = <<>> THEN FALSE
    ELSE IF a = <<>> THEN TRUE
    ELSE IF Head(a) = Head(b) THEN SortsBefore(Tail(a), Tail(b))
    ELSE CodeOf(Head(a)) < CodeOf(Head(b))

\* s.endsWith(p)
EndsWith(s, p) == Len(s) >= Len(p) /\ SubSeq(s, Len(s) - Len(p) + 1, Len(s)) = p

\* d.replace(/-/g, '.')
formatDate(d) == [k \in DOMAIN d |-> IF d[k] = "-" THEN "." ELSE d[k]]

\* lines.join('\n')
RECURSIVE JoinLines(_)
JoinLines(ls) ==
    IF ls = <<>> THEN <<>>
    ELSE IF Len(ls) = 1 THEN ls[1]
    ELSE ls[1] \o <<NL>> \o JoinLines(Tail(ls))

(***************************************************************************)
(* render.ts: generateMarkdown, renderHTML and the draft files.            *)
(***************************************************************************)
\* String.prototype.toUpperCase, one character
ToUpperChar(c) ==
    IF \E k \in DOMAIN LowerSeq : LowerSeq[k] = c
    THEN UpperSeq[CHOOSE k \in DOMAIN LowerSeq : LowerSeq[k] = c]
    ELSE c

\* the characters of a lifecycle state
StateText(state) ==
    CASE state = "opened" -> <<"o","p","e","n","e","d">>
      [] state = "merged" -> <<"m","e","r","g","e","d">>
      [] state = "closed" -> <<"c","l","o","s","e","d">>
      [] state = "locked" -> <<"l","o","c","k","e","d">>

Check  == "U+2705"     \* white heavy check mark
Blue   == "U+1F535"    \* large blue circle
Red    == "U+1F534"    \* large red circle
White  == "U+2B1C"     \* white large square

\* stateEmoji with the case of the open state spelled 'open'
stateEmoji_Open(state) ==
    CASE state = "merged" -> Check
      [] state = "open" -> Blue
      [] state = "closed" -> Red
      [] OTHER -> White

stateEmoji(state) ==
    CASE state = "merged" -> Check
      [] state = "opened" -> Blue
      [] state = "closed" -> Red
      [] OTHER -> White

\* state.charAt(0).toUpperCase() + state.slice(1)
capitalizeState(state) ==
    LET t == StateText(state) IN <<ToUpperChar(t[1])>> \o Tail(t)

\* jiraMap.get(key): of the issues with this key, the last one
jiraMapHas(issues, key) == \E i \in DOMAIN issues : issues[i].key = key
jiraMapGet(issues, key) ==
    issues[CHOOSE i \in DOMAIN issues :
              /\ issues[i].key = key
              /\ \A j \in DOMAIN issues : issues[j].key = key => j <= i]

\* keys.map(k => jiraMap.get(k)).find(Boolean): the positions of the keys
\* of the message that the map holds
TrackedKeys(msg, issues) ==
    SelectSeq(AddMatches(<<>>, msg, 1), LAMBDA k : jiraMapHas(issues, k))

\* mr.url
UrlOf(mr) == <<"mr/", ToString(mr.iid)>>

\* one line of the section of completed work
CommitLine(c, issues, cfg) ==
    LET tracked == TrackedKeys(c.message, issues) IN
    IF tracked # <<>>
    THEN LET jira == jiraMapGet(issues, tracked[1]) IN
         <<"-", " ", "[">> \o jira.key \o <<"]", "(">> \o cfg.JIRA_HOST
           \o <<"/browse/">> \o jira.key \o <<")", " ">> \o c.message
           \o <<" ", "(", jira.status, ")">>
    ELSE <<"-", " ">> \o c.message

\* one row of the table of merge requests
MRRow(mr) ==
    <<"|", " ", "[">> \o mr.title \o <<"]", "(">> \o UrlOf(mr) \o <<")", " ", "|", " ">>
      \o <<stateEmoji(mr.state), " ">> \o capitalizeState(mr.state)
      \o <<" ", "|", " ">> \o mr.targetBranch \o <<" ", "|">>

SummaryLine(r) ==
    <<"-", " ", ToString(r.repo), ":", " ", ToString(r.commitCount), " ", "commits">>

\* the array `lines` of generateMarkdown when it is joined
MarkdownLines(data, cfg) ==
    <<<<"#", " ", "weekly report", " ">> \o formatDate(DateText(data.dateRange.from))
        \o <<" ", "-", " ">> \o formatDate(DateText(data.dateRange.to)),
      <<>>,
      <<"## completed this week">>,
      <<>>>>
    \o (IF Len(data.commits) > 0
        THEN [k \in DOMAIN data.commits |->
                CommitLine(data.commits[k], data.jiraIssues, cfg)]
        ELSE <<<<"_no commits this week_">>>>)
    \o <<<<>>>>
    \o (IF Len(data.mrs) > 0
        THEN <<<<"## Merge Requests">>, <<"| MR | state | target |">>,
               <<"|----|------|----------|">>>>
             \o [k \in DOMAIN data.mrs |-> MRRow(data.mrs[k])] \o <<<<>>>>
        ELSE <<>>)
    \o (IF Len(data.gitSummary) > 0
        THEN <<<<"## commit summary">>>>
             \o [k \in DOMAIN data.gitSummary |-> SummaryLine(data.gitSummary[k])]
             \o <<<<>>>>
        ELSE <<>>)
    \o <<<<"## additions">>, <<"<!-- add your own notes here -->">>, <<>>>>

\* generateMarkdown with the number of the invocation in the heading
generateMarkdown_Numbered(data, cfg) ==
    <<ToString(runs)>> \o JoinLines(MarkdownLines(data, cfg))

generateMarkdown(data, cfg) == JoinLines(MarkdownLines(data, cfg))

\* renderHTML: the document around the converted Markdown
renderHTML(md) == <<"<html>">> \o md \o <<"</html>">>

MdSuffix == <<".", "m", "d">>
PreviewName == <<"p","r","e","v","i","e","w",".","h","t","m","l">>

\* the file name saveDraft writes: `${toDate}.md`
DraftName(toDate) == toDate \o MdSuffix

\* writeFileSync that leaves a file that is already there as it is
WriteFile_KeepsExisting(dir, name, content) ==
    [n \in DOMAIN dir \cup {name} |-> IF n \in DOMAIN dir THEN dir[n] ELSE content]

\* fs.writeFileSync(path, content): the directory after the write
WriteFile(dir, name, content) ==
    [n \in DOMAIN dir \cup {name} |-> IF n = name THEN content ELSE dir[n]]

\* getLatestDraft without the reverse of the sorted names
getLatestDraft_Unreversed(dir) ==
    LET md == {n \in DOMAIN dir : EndsWith(n, MdSuffix)} IN
    IF md = {} THEN NullText
    ELSE CHOOSE n \in md : \A o \in md : o = n \/ SortsBefore(n, o)

\* getLatestDraft: the names ending in .md, sorted, reversed, the first
getLatestDraft(dir) ==
    LET md == {n \in DOMAIN dir : EndsWith(n, MdSuffix)} IN
    IF md = {} THEN NullText
    ELSE CHOOSE n \in md : \A o \in md : o = n \/ SortsBefore(o, n)

(***************************************************************************)
(* cmdSend: the window of the mail subject, read back from the draft.      *)
(***************************************************************************)
\* s[p..p+n-1] are n digits (\d{n})
DigitsAt(s, p, n) == p + n - 1 <= Len(s) /\ \A k \in p..(p + n - 1) : s[k] \in Digit

\* \d{4}\.\d{2}\.\d{2} matches s at p
DateAt(s, p) ==
    /\ p >= 1
    /\ p + 9 <= Len(s)
    /\ DigitsAt(s, p, 4) /\ s[p + 4] = "."
    /\ DigitsAt(s, p + 5, 2) /\ s[p + 7] = "."
    /\ DigitsAt(s, p + 8, 2)

\* where the second date starts when the whole pattern matches s at p, or 0:
\* a date, \s*, a hyphen, \s*, a date
SecondDateAt(s, p) ==
    IF ~DateAt(s, p) THEN 0
    ELSE LET hyphen == RunEnd(s, p + 10, {SP}) IN
         IF hyphen > Len(s) \/ s[hyphen] # "-" THEN 0
         ELSE LET q == RunEnd(s, hyphen + 1, {SP}) IN
              IF DateAt(s, q) THEN q ELSE 0

\* markdown.split('\n')[0] || ''
firstLine(md) == SplitFirst(md, NL)

\* firstLine.match(...): the positions of the two dates of the leftmost
\* match, or <<0, 0>> for null
dateMatch(line) ==
    IF \E p \in DOMAIN line : SecondDateAt(line, p) # 0
    THEN LET p == CHOOSE p \in DOMAIN line :
                     /\ SecondDateAt(line, p) # 0
                     /\ \A o \in 1..(p - 1) : SecondDateAt(line, o) = 0
         IN  <<p, SecondDateAt(line, p)>>
    ELSE <<0, 0>>

\* d.replace(/\./g, '-')
Dashed(d) == [k \in DOMAIN d |-> IF d[k] = "." THEN "-" ELSE d[k]]

\* path.basename(draftPath, '.md')
fileName(path) ==
    IF EndsWith(path, MdSuffix) THEN SubSeq(path, 1, Len(path) - Len(MdSuffix)) ELSE path

\* the `range` of a cmdSend that never reads the first line
RangeOfDraft_FromFileName(md, path) ==
    [from |-> fileName(path), to |-> fileName(path)]

\* the `range` cmdSend hands to sendMail
RangeOfDraft(md, path) ==
    LET line == firstLine(md)
        m == dateMatch(line)
    IN  IF m # <<0, 0>>
        THEN [from |-> Dashed(SubSeq(line, m[1], m[1] + 9)),
              to |-> Dashed(SubSeq(line, m[2], m[2] + 9))]
        ELSE [from |-> fileName(path), to |-> fileName(path)]

(***************************************************************************)
(* loadConfig, as far as the commands and the mailer read its result.      *)
(***************************************************************************)
\* s.trim()
RECURSIVE TrimLeft(_)
TrimLeft(s) == IF s # <<>> /\ Head(s) = SP THEN TrimLeft(Tail(s)) ELSE s
RECURSIVE TrimRight(_)
TrimRight(s) ==
    IF s # <<>> /\ s[Len(s)] = SP THEN TrimRight(SubSeq(s, 1, Len(s) - 1)) ELSE s
Trim(s) == TrimRight(TrimLeft(s))

\* s.split(',')
RECURSIVE SplitComma(_)
SplitComma(s) ==
    LET first == SplitFirst(s, ",") IN
    IF Len(first) = Len(s) THEN <<first>>
    ELSE <<first>> \o SplitComma(SubSeq(s, Len(first) + 2, Len(s)))

\* (value || '').split(',').map(s => s.trim()).filter(Boolean)
ListOf(value) ==
    LET parts == SplitComma(value)
        trimmed == [k \in DOMAIN parts |-> Trim(parts[k])]
    IN  SelectSeq(trimmed, LAMBDA t : t # <<>>)

JiraHost == <<"j","r">>

\* loadConfig that only looks for the .env file
ConfigMissing_FileOnly(env) == ~env.present

\* loadConfig exits: no .env file, or one of the five required keys is empty
ConfigMissing(env) == ~env.present \/ ~env.required

\* the Config loadConfig returns
loadConfig(env) ==
    [loaded |-> TRUE, JIRA_HOST |-> JiraHost,
     SMTP_USER |-> env.SMTP_USER, SMTP_PASS |-> env.SMTP_PASS,
     MAIL_TO |-> ListOf(env.MAIL_TO), MAIL_THREAD |-> env.MAIL_THREAD]

(***************************************************************************)
(* mailer.ts.                                                              *)
(***************************************************************************)
\* the two checks of sendMail with the recipients not checked
Refusal_SmtpOnly(cfg) ==
    IF cfg.SMTP_USER = <<>> \/ cfg.SMTP_PASS = <<>> THEN "smtp" ELSE "none"

\* the two checks at the head of sendMail: the error thrown, if any
Refusal(cfg) ==
    IF cfg.SMTP_USER = <<>> \/ cfg.SMTP_PASS = <<>> THEN "smtp"
    ELSE IF Len(cfg.MAIL_TO) = 0 THEN "recipients"
    ELSE "none"

\* loadThread: the parsed file, or {} when it cannot be read or parsed
loadThread(file) ==
    IF file.kind = "state"
    THEN [messageId |-> file.messageId, references |-> file.references]
    ELSE NoThread

\* saveThread without the new identifier appended to the references
saveThread_KeepsReferences(messageId, prevReferences) ==
    [kind |-> "state", messageId |-> messageId, references |-> prevReferences]

\* saveThread: what it writes to .mail-thread.json
saveThread(messageId, prevReferences) ==
    [kind |-> "state", messageId |-> messageId,
     references |-> Append(prevReferences, messageId)]

\* references.join(' ')
RECURSIVE JoinSpace(_)
JoinSpace(ids) ==
    IF ids = <<>> THEN <<>>
    ELSE IF Len(ids) = 1 THEN ids[1]
    ELSE ids[1] \o <<SP>> \o JoinSpace(Tail(ids))

\* the headers sendMail builds from `thread`
HeadersOf(th) ==
    IF th.messageId # <<>>
    THEN [set |-> TRUE, inReplyTo |-> th.messageId,
          references |-> JoinSpace(th.references)]
    ELSE NoHeaders

\* info.messageId of the n-th message the relay accepted
MessageId(n) == <<"<", ToString(n), ">">>

(***************************************************************************)
(* The run.                                                                *)
(***************************************************************************)
\* the state of collectAll when it is called
InitCollector ==
    /\ variant = "detail"
    /\ range = [from |-> 0, to |-> 0]
    /\ listing = <<>>
    /\ mrs = <<>>
    /\ idx = 1
    /\ cur = <<>>
    /\ details = <<>>
    /\ mrDetails = <<>>
    /\ keys = <<>>
    /\ jiraIssues = <<>>
    /\ commits = <<>>
    /\ gitSummary = <<>>
    /\ reqs = <<>>
    /\ refsSeen = <<>>
    /\ rawCommits = <<>>
    /\ clones = <<>>
    /\ warnings = {}
    /\ inflight = {}

\* the command line at position where of command, the drafts directory
\* holding dir, written by saveDraft calls with the end days in days
InitShell(where, command, dir, days) ==
    /\ cmd = command
    /\ cpc = where
    /\ dotenv = NoEnv
    /\ window = [from |-> 0, to |-> 0]
    /\ config = NoConfig
    /\ files = dir
    /\ thread = NoThread
    /\ headers = NoHeaders
    /\ outbox = <<>>
    /\ transports = 0
    /\ exit = "none"
    /\ markdown = <<>>
    /\ draftPath = NullText
    /\ answers = <<>>
    /\ mailRange = NoRange
    /\ runs = 0
    /\ saved = days
    /\ renderings = {}
    /\ threadInit = threadFile

\* cmdDraft has loaded the configuration and calls collectAll
Init ==
    /\ pc = "start"
    /\ InitCollector
    /\ threadFile = NoThreadFile
    /\ InitShell("collect", "draft", <<>>, {})

Req(kind, iid) == [kind |-> kind, iid |-> iid]

\* collectAll(config, range) is called: cmdDraft hands it the resolved window
CallCollectAll(Variants, Ranges) ==
    /\ pc = "start"
    /\ \E v \in Variants, r \in Ranges :
         /\ variant' = v
         /\ range' = r
    /\ pc' = "listing"
    /\ UNCHANGED <<listing, mrs, idx, cur, details, mrDetails, keys, jiraIssues, commits,
                   gitSummary, reqs, refsSeen, rawCommits, clones, warnings>>
    /\ UNCHANGED inflight
    /\ UNCHANGED shell

AfterListing == IF variant = "detail" THEN "details" ELSE "git"

\* collectGitLabMRs and the .catch of collectAll around it
CollectGitLabMRs(Listings) ==
    /\ pc = "listing"
    /\ reqs' = Append(reqs, Req("listing", 0))
    /\ \/ \E data \in Listings :
            /\ listing' = data
            /\ mrs' = FilterMRs(data, range)
            /\ warnings' = warnings
       \/ /\ listing' = <<>>
          /\ mrs' = <<>>
          /\ warnings' = warnings \cup {"gitlab"}
    /\ pc' = AfterListing
    /\ UNCHANGED <<variant, range, idx, cur, details, mrDetails, keys, jiraIssues,
                   commits, gitSummary, refsSeen, rawCommits, clones>>
    /\ inflight' = {}
    /\ UNCHANGED shell

\* the loop of collectMRDetails up to the next await: fetchMRCommits of the
\* item in hand, and the rest of the body when no refs request is needed
FetchMRCommits(CommitLists) ==
    /\ pc = "details"
    /\ idx <= Len(featureMRs)
    /\ LET mr == featureMRs[idx] IN
       /\ reqs' = Append(reqs, Req("commits", mr.iid))
       /\ \/ \E data \in CommitLists :
               LET cs == FilterMRCommits(data) IN
               /\ rawCommits' = rawCommits @@ (mr.iid :> data)
               /\ IF cs = <<>>
                  THEN /\ idx' = idx + 1
                       /\ UNCHANGED <<pc, cur, details>>
                  ELSE IF NeedsRefs(mr)
                  THEN /\ pc' = "refs"
                       /\ cur' = cs
                       /\ UNCHANGED <<idx, details>>
                  ELSE /\ details' = Append(details, MRDetailOf(mr, cs, StatusWithoutRefs(mr)))
                       /\ idx' = idx + 1
                       /\ UNCHANGED <<pc, cur>>
               /\ UNCHANGED <<mrDetails, warnings>>
          \/ /\ mrDetails' = <<>>
             /\ warnings' = warnings \cup {"details"}
             /\ pc' = "jira"
             /\ UNCHANGED <<idx, cur, details, rawCommits>>
    /\ UNCHANGED <<variant, range, listing, mrs, keys, jiraIssues, commits, gitSummary,
                   refsSeen, clones>>
    /\ inflight' = {}
    /\ UNCHANGED shell

\* FetchCommitRefs with the details computed so far returned on a failure
FetchCommitRefs_KeepsPartial(RefLists) ==
    /\ pc = "refs"
    /\ LET mr == featureMRs[idx] IN
       /\ reqs' = Append(reqs, Req("refs", mr.iid))
       /\ \/ \E refs \in RefLists :
               /\ refsSeen' = refsSeen @@ (mr.iid :> refs)
               /\ details' = Append(details, MRDetailOf(mr, cur, resolveDeployStatus(refs)))
               /\ idx' = idx + 1
               /\ pc' = "details"
               /\ UNCHANGED <<mrDetails, warnings>>
          \/ /\ mrDetails' = details
             /\ warnings' = warnings \cup {"details"}
             /\ pc' = "jira"
             /\ UNCHANGED <<idx, details, refsSeen>>
    /\ cur' = <<>>
    /\ UNCHANGED <<variant, range, listing, mrs, keys, jiraIssues, commits, gitSummary,
                   rawCommits, clones>>
    /\ inflight' = {}
    /\ UNCHANGED shell

\* fetchCommitRefs of the item in hand and the rest of the loop body
FetchCommitRefs(RefLists) ==
    /\ pc = "refs"
    /\ LET mr == featureMRs[idx] IN
       /\ reqs' = Append(reqs, Req("refs", mr.iid))
       /\ \/ \E refs \in RefLists :
               /\ refsSeen' = refsSeen @@ (mr.iid :> refs)
               /\ details' = Append(details, MRDetailOf(mr, cur, resolveDeployStatus(refs)))
               /\ idx' = idx + 1
               /\ pc' = "details"
               /\ UNCHANGED <<mrDetails, warnings>>
          \/ /\ mrDetails' = <<>>
             /\ warnings' = warnings \cup {"details"}
             /\ pc' = "jira"
             /\ UNCHANGED <<idx, details, refsSeen>>
    /\ cur' = <<>>
    /\ UNCHANGED <<variant, range, listing, mrs, keys, jiraIssues, commits, gitSummary,
                   rawCommits, clones>>
    /\ inflight' = {}
    /\ UNCHANGED shell

\* collectMRDetails returns details
ReturnMRDetails ==
    /\ pc = "details"
    /\ idx > Len(featureMRs)
    /\ mrDetails' = details
    /\ pc' = "jira"
    /\ UNCHANGED <<variant, range, listing, mrs, idx, cur, details, keys, jiraIssues, commits,
                   gitSummary, reqs, refsSeen, rawCommits, clones, warnings>>
    /\ UNCHANGED inflight
    /\ UNCHANGED shell

\* collectGitCommits (synchronous): discoverRepos, then git log per repository.
\* readdirSync of an existing path that cannot be listed throws, and nothing
\* in collectGitCommits or collectAll catches it.
CollectGitCommits(DirStates, EntryLists) ==
    /\ pc = "git"
    /\ \E dirState \in DirStates, entries \in EntryLists :
         IF dirState = "unreadable"
         THEN /\ pc' = "aborted"
              /\ UNCHANGED <<commits, gitSummary, clones>>
         ELSE LET repos == discoverRepos(dirState, entries) IN
              /\ clones' = IF dirState = "listed" THEN entries ELSE <<>>
              /\ commits' = GitCommitsOf(repos)
              /\ gitSummary' = GitSummaryOf(repos)
              /\ pc' = "jira"
    /\ UNCHANGED <<variant, range, listing, mrs, idx, cur, details, mrDetails, keys, jiraIssues,
                   reqs, refsSeen, rawCommits, warnings>>
    /\ UNCHANGED inflight
    /\ UNCHANGED shell

\* collectJiraIssues without the early return on an empty key set
ExtractKeys_NoEarlyReturn ==
    /\ pc = "jira"
    /\ keys' = IF variant = "detail" THEN KeysOfMRs(<<>>, mrs)
               ELSE KeysOfCommits(KeysOfMRs(<<>>, mrs), commits)
    /\ pc' = "login"
    /\ UNCHANGED <<variant, range, listing, mrs, idx, cur, details, mrDetails,
                   jiraIssues, commits, gitSummary, reqs, refsSeen, rawCommits,
                   clones, warnings>>
    /\ UNCHANGED inflight
    /\ UNCHANGED shell

\* collectJiraIssues up to its first await: the key set and the early return
ExtractKeys ==
    /\ pc = "jira"
    /\ LET ks == IF variant = "detail" THEN KeysOfMRs(<<>>, mrs)
                 ELSE KeysOfCommits(KeysOfMRs(<<>>, mrs), commits)
       IN /\ keys' = ks
          /\ IF ks = <<>>
             THEN jiraIssues' = <<>> /\ pc' = "done"
             ELSE jiraIssues' = jiraIssues /\ pc' = "login"
    /\ UNCHANGED <<variant, range, listing, mrs, idx, cur, details, mrDetails, commits,
                   gitSummary, reqs, refsSeen, rawCommits, clones, warnings>>
    /\ UNCHANGED inflight
    /\ UNCHANGED shell

\* jiraLogin that asks again when the login failed
JiraLogin_Retries ==
    /\ pc = "login"
    /\ reqs' = Append(reqs, Req("login", 0))
    /\ \/ pc' = "search" /\ UNCHANGED <<jiraIssues, warnings>>
       \/ /\ jiraIssues' = <<>>
          /\ warnings' = warnings \cup {"jira"}
          /\ pc' = "login"
    /\ UNCHANGED <<variant, range, listing, mrs, idx, cur, details, mrDetails, keys, commits,
                   gitSummary, refsSeen, rawCommits, clones>>
    /\ inflight' = {}
    /\ UNCHANGED shell

\* jiraLogin, and the .catch of collectAll when it fails
JiraLogin ==
    /\ pc = "login"
    /\ reqs' = Append(reqs, Req("login", 0))
    /\ \/ pc' = "search" /\ UNCHANGED <<jiraIssues, warnings>>
       \/ /\ jiraIssues' = <<>>
          /\ warnings' = warnings \cup {"jira"}
          /\ pc' = "done"
    /\ UNCHANGED <<variant, range, listing, mrs, idx, cur, details, mrDetails, keys, commits,
                   gitSummary, refsSeen, rawCommits, clones>>
    /\ inflight' = {}
    /\ UNCHANGED shell

\* the search request of collectJiraIssues, and the .catch when it fails
JiraSearch(IssueLists) ==
    /\ pc = "search"
    /\ reqs' = Append(reqs, Req("search", 0))
    /\ \/ \E issues \in IssueLists :
            jiraIssues' = JiraItemsOf(issues) /\ warnings' = warnings
       \/ jiraIssues' = <<>> /\ warnings' = warnings \cup {"jira"}
    /\ pc' = "done"
    /\ UNCHANGED <<variant, range, listing, mrs, idx, cur, details, mrDetails, keys, commits,
                   gitSummary, refsSeen, rawCommits, clones>>
    /\ inflight' = {}
    /\ UNCHANGED shell

\* the value collectAll resolves to
Snapshot ==
    IF variant = "detail"
    THEN [dateRange |-> range, mrs |-> mrs, mrDetails |-> mrDetails,
          jiraIssues |-> jiraIssues]
    ELSE [dateRange |-> range, mrs |-> mrs, jiraIssues |-> jiraIssues,
          commits |-> commits, gitSummary |-> gitSummary]

(***************************************************************************)
(* cli.ts: the commands.  Every invocation is a new process: the state of  *)
(* collectAll and the locals start afresh, the drafts directory and        *)
(* .mail-thread.json are what the invocations before left.                 *)
(***************************************************************************)
\* the collector state of a new process, at position p
FreshCollector(p) ==
    /\ pc' = p
    /\ variant' = "commit"
    /\ range' = [from |-> 0, to |-> 0]
    /\ listing' = <<>> /\ mrs' = <<>> /\ idx' = 1 /\ cur' = <<>>
    /\ details' = <<>> /\ mrDetails' = <<>> /\ keys' = <<>> /\ jiraIssues' = <<>>
    /\ commits' = <<>> /\ gitSummary' = <<>> /\ reqs' = <<>>
    /\ refsSeen' = <<>> /\ rawCommits' = <<>> /\ clones' = <<>> /\ warnings' = {}
    /\ inflight' = {}

\* the locals of a new process
FreshLocals ==
    /\ thread' = NoThread
    /\ headers' = NoHeaders
    /\ transports' = 0
    /\ answers' = <<>>
    /\ mailRange' = NoRange

\* the invocation ends: main returns, or process.exit / a rejection ends it
End(how) == cpc' = "idle" /\ exit' = how

\* the files and histories that outlive an invocation
disk == <<files, threadFile, outbox, saved, renderings, threadInit>>

\* `draft` or `run` is started: loadConfig and resolveDateRange of cmdDraft
InvokeDraft(Cmds, Envs, Wins) ==
    /\ cpc = "idle"
    /\ runs < MaxRuns
    /\ runs' = runs + 1
    /\ FreshLocals
    /\ markdown' = <<>>
    /\ draftPath' = NullText
    /\ \E c \in Cmds, env \in Envs, w \in Wins :
         /\ cmd' = c
         /\ dotenv' = env
         /\ IF ConfigMissing(env)
            THEN /\ End("config")
                 /\ config' = NoConfig
                 /\ window' = [from |-> 0, to |-> 0]
                 /\ FreshCollector("idle")
            ELSE /\ cpc' = "collect"
                 /\ exit' = "none"
                 /\ config' = loadConfig(env)
                 /\ window' = w
                 /\ FreshCollector("start")
    /\ UNCHANGED disk

\* collectAll rejected: main().catch reports the error and exits
AbortDraft ==
    /\ cpc = "collect"
    /\ pc = "aborted"
    /\ End("error")
    /\ UNCHANGED <<collector, cmd, dotenv, window, config, thread, headers, transports,
                   markdown, draftPath, answers, mailRange, runs, disk>>

\* const markdown = generateMarkdown(data, config)
RenderDraft ==
    /\ cpc = "collect"
    /\ pc = "done"
    /\ markdown' = generateMarkdown(Snapshot, config)
    /\ renderings' = renderings \cup {<<Snapshot, markdown'>>}
    /\ cpc' = "save"
    /\ UNCHANGED <<collector, cmd, dotenv, window, config, files, threadFile, thread,
                   headers, outbox, transports, exit, draftPath, answers, mailRange,
                   runs, saved, threadInit>>

\* the manual addition a user makes to a draft in the editor
Note == <<NL, "n", "o", "t", "e">>

\* saveDraft(markdown, range.to); `draft` ends here, `run` goes on to
\* getLatestDraft and the editor, in which the user may add to the draft
SaveDraft(Edits) ==
    /\ cpc = "save"
    /\ saved' = saved \cup {window.to}
    /\ LET written == WriteFile(files, DraftName(DateText(window.to)), markdown) IN
       IF cmd = "draft"
       THEN /\ files' = written
            /\ End("ok")
            /\ UNCHANGED draftPath
       ELSE /\ draftPath' = getLatestDraft(written)
            /\ \E edit \in Edits :
                 files' = IF edit
                          THEN WriteFile(written, draftPath', written[draftPath'] \o Note)
                          ELSE written
            /\ cpc' = "askSend"
            /\ UNCHANGED exit
    /\ UNCHANGED <<collector, cmd, dotenv, window, config, threadFile, thread, headers,
                   outbox, transports, markdown, answers, mailRange, runs, renderings,
                   threadInit>>

\* cmdSend up to its first await: getLatestDraft, loadConfig, readFileSync;
\* cfg and md are the configuration and the Markdown the process holds
CmdSend(env, cfg, md) ==
    LET path == getLatestDraft(files) IN
    /\ draftPath' = path
    /\ IF path = NullText
       THEN End("nodraft") /\ config' = cfg /\ markdown' = md
       ELSE IF ConfigMissing(env)
       THEN End("config") /\ config' = cfg /\ markdown' = md
       ELSE /\ config' = loadConfig(env)
            /\ markdown' = files[path]
            /\ cpc' = "html"
            /\ exit' = "none"

\* ask: the line the user typed, trimmed
ask(line) == Trim(line)

\* AskSend with cmdSend started whatever was answered
AskSend_AnyAnswer(Lines) ==
    /\ cpc = "askSend"
    /\ \E line \in Lines :
         /\ answers' = Append(answers, ask(line))
         /\ CmdSend(dotenv, config, markdown)
    /\ UNCHANGED <<collector, cmd, dotenv, window, thread, headers, transports,
                   mailRange, runs, disk>>

\* the prompt of cmdRun: on y or Y cmdSend starts
AskSend(Lines) ==
    /\ cpc = "askSend"
    /\ \E line \in Lines :
         LET sendConfirm == ask(line) IN
         /\ answers' = Append(answers, sendConfirm)
         /\ IF ToLower(sendConfirm) = <<"y">>
            THEN CmdSend(dotenv, config, markdown)
            ELSE End("declined") /\ UNCHANGED <<config, markdown, draftPath>>
    /\ UNCHANGED <<collector, cmd, dotenv, window, thread, headers, transports,
                   mailRange, runs, disk>>

\* `send` is started
InvokeSend(Envs) ==
    /\ cpc = "idle"
    /\ runs < MaxRuns
    /\ runs' = runs + 1
    /\ FreshLocals
    /\ FreshCollector("idle")
    /\ cmd' = "send"
    /\ window' = [from |-> 0, to |-> 0]
    /\ \E env \in Envs :
         /\ dotenv' = env
         /\ CmdSend(env, NoConfig, <<>>)
    /\ UNCHANGED disk

\* await renderHTML(markdown) of cmdSend, then the window of the subject
RenderMail ==
    /\ cpc = "html"
    /\ mailRange' = RangeOfDraft(markdown, draftPath)
    /\ cpc' = "confirm"
    /\ UNCHANGED <<collector, cmd, dotenv, window, config, thread, headers, transports,
                   exit, markdown, draftPath, answers, runs, disk>>

\* the prompt of cmdSend; on y or Y sendMail runs up to transporter.sendMail
Confirm(Lines) ==
    /\ cpc = "confirm"
    /\ \E line \in Lines :
         LET confirm == ask(line) IN
         /\ answers' = Append(answers, confirm)
         /\ IF ToLower(confirm) # <<"y">>
            THEN End("cancelled") /\ UNCHANGED <<thread, headers, transports>>
            ELSE IF Refusal(config) # "none"
            THEN End(Refusal(config)) /\ UNCHANGED <<thread, headers, transports>>
            ELSE /\ transports' = transports + 1
                 /\ IF config.MAIL_THREAD /\ threadFile.kind = "null"
                    THEN End("thread") /\ UNCHANGED <<thread, headers>>
                    ELSE /\ thread' = IF config.MAIL_THREAD THEN loadThread(threadFile)
                                       ELSE NoThread
                         /\ headers' = HeadersOf(thread')
                         /\ cpc' = "submit"
                         /\ UNCHANGED exit
    /\ UNCHANGED <<collector, cmd, dotenv, window, config, markdown, draftPath,
                   mailRange, runs, disk>>

\* SubmitMail with the draft removed when the relay refuses the message
SubmitMail_DropsDraft ==
    /\ cpc = "submit"
    /\ reqs' = Append(reqs, Req("mail", 0))
    /\ End("relay")
    /\ files' = [n \in DOMAIN files \ {draftPath} |-> files[n]]
    /\ UNCHANGED <<pc, variant, range, listing, mrs, idx, cur, details, mrDetails, keys,
                   jiraIssues, commits, gitSummary, refsSeen, rawCommits, clones,
                   warnings>>
    /\ inflight' = {}
    /\ UNCHANGED <<cmd, dotenv, window, config, threadFile, thread, headers, outbox,
                   transports, markdown, draftPath, answers, mailRange, runs, saved,
                   renderings, threadInit>>

\* SubmitMail with saveThread called whether or not threading is on
SubmitMail_AlwaysSaves ==
    /\ cpc = "submit"
    /\ reqs' = Append(reqs, Req("mail", 0))
    /\ \/ LET id == MessageId(Len(outbox) + 1) IN
          /\ outbox' = Append(outbox, [id |-> id, headers |-> headers,
                                        threaded |-> config.MAIL_THREAD])
          /\ threadFile' = saveThread(id, thread.references)
          /\ End("ok")
       \/ /\ End("relay")
          /\ UNCHANGED <<outbox, threadFile>>
    /\ UNCHANGED <<pc, variant, range, listing, mrs, idx, cur, details, mrDetails, keys,
                   jiraIssues, commits, gitSummary, refsSeen, rawCommits, clones,
                   warnings>>
    /\ inflight' = {}
    /\ UNCHANGED <<cmd, dotenv, window, config, files, thread, headers, transports,
                   markdown, draftPath, answers, mailRange, runs, saved, renderings,
                   threadInit>>

\* SubmitMail with the thread state written before the relay has answered
SubmitMail_SavesFirst ==
    /\ cpc = "submit"
    /\ reqs' = Append(reqs, Req("mail", 0))
    /\ LET id == MessageId(Len(outbox) + 1) IN
       /\ threadFile' = IF config.MAIL_THREAD
                         THEN saveThread(id, thread.references)
                         ELSE threadFile
       /\ \/ /\ outbox' = Append(outbox, [id |-> id, headers |-> headers,
                                           threaded |-> config.MAIL_THREAD])
             /\ End("ok")
          \/ /\ End("relay")
             /\ UNCHANGED outbox
    /\ UNCHANGED <<pc, variant, range, listing, mrs, idx, cur, details, mrDetails, keys,
                   jiraIssues, commits, gitSummary, refsSeen, rawCommits, clones,
                   warnings>>
    /\ inflight' = {}
    /\ UNCHANGED <<cmd, dotenv, window, config, files, thread, headers, transports,
                   markdown, draftPath, answers, mailRange, runs, saved, renderings,
                   threadInit>>

\* await transporter.sendMail(...), and saveThread when it resolved
SubmitMail ==
    /\ cpc = "submit"
    /\ reqs' = Append(reqs, Req("mail", 0))
    /\ \/ LET id == MessageId(Len(outbox) + 1) IN
          /\ outbox' = Append(outbox, [id |-> id, headers |-> headers,
                                        threaded |-> config.MAIL_THREAD])
          /\ threadFile' = IF config.MAIL_THREAD
                            THEN saveThread(id, thread.references)
                            ELSE threadFile
          /\ End("ok")
       \/ /\ End("relay")
          /\ UNCHANGED <<outbox, threadFile>>
    /\ UNCHANGED <<pc, variant, range, listing, mrs, idx, cur, details, mrDetails, keys,
                   jiraIssues, commits, gitSummary, refsSeen, rawCommits, clones,
                   warnings>>
    /\ inflight' = {}
    /\ UNCHANGED <<cmd, dotenv, window, config, files, thread, headers, transports,
                   markdown, draftPath, answers, mailRange, runs, saved, renderings,
                   threadInit>>

\* `preview` is started: cmdPreview up to await renderHTML
InvokePreview(Envs) ==
    /\ cpc = "idle"
    /\ runs < MaxRuns
    /\ runs' = runs + 1
    /\ FreshLocals
    /\ FreshCollector("idle")
    /\ cmd' = "preview"
    /\ window' = [from |-> 0, to |-> 0]
    /\ \E env \in Envs :
         LET path == getLatestDraft(files) IN
         /\ dotenv' = env
         /\ draftPath' = path
         /\ IF path = NullText
            THEN End("nodraft") /\ markdown' = <<>> /\ config' = NoConfig
            ELSE IF ConfigMissing(env)
            THEN End("config") /\ markdown' = files[path] /\ config' = NoConfig
            ELSE /\ markdown' = files[path]
                 /\ config' = loadConfig(env)
                 /\ cpc' = "previewHtml"
                 /\ exit' = "none"
    /\ UNCHANGED disk

\* the rest of cmdPreview: drafts/preview.html is written
WritePreview ==
    /\ cpc = "previewHtml"
    /\ files' = WriteFile(files, PreviewName, renderHTML(markdown))
    /\ End("ok")
    /\ UNCHANGED <<collector, cmd, dotenv, window, config, threadFile, thread, headers,
                   outbox, transports, markdown, draftPath, answers, mailRange, runs,
                   saved, renderings, threadInit>>

(***************************************************************************)
(* The answers of the environment.                                         *)
(***************************************************************************)
Fix      == <<"f","i","x">>
KeyAB7   == <<"A","B","-","7">>
OwnEmail   == <<"a","l","@","x">>
OtherEmail == <<"b","o","@","x">>

\* the window the reconciliation runs are given: one day
OneDay == {[from |-> d, to |-> d] : d \in {MaxDay - 1}}

\* every window over the days of the model, empty ones (from > to) included
Windows == [from : 0..MaxDay, to : 0..MaxDay]

\* every instant of the model: one day before and one after the windows
Instants == 0..((MaxDay + 1) * TicksPerDay - 1)

\* the listings of at most MaxMRs merge requests built from Shapes by Make
ListingsOf(Shapes, Make(_, _)) ==
    UNION {{[k \in 1..n |-> Make(k, f[k])] : f \in [1..n -> Shapes]} : n \in 0..MaxMRs}

\* merge requests that differ in lifecycle state, branches and merge commit
BranchShapes ==
    [state : {"opened", "merged", "closed"},
     br : {<<Feature, Main>>, <<Feature, Release>>, <<Release, Main>>},
     sha : {NoSha, "c1"}]

BranchMR(k, sh) ==
    [iid |-> k, title |-> Fix, description |-> NullText, state |-> sh.state,
     source_branch |-> sh.br[1], target_branch |-> sh.br[2],
     created_at |-> (MaxDay - 1) * TicksPerDay,
     merged_at |-> IF sh.state = "merged" THEN (MaxDay - 1) * TicksPerDay ELSE NoTime,
     updated_at |-> (MaxDay - 1) * TicksPerDay,
     merge_commit_sha |-> sh.sha]

BranchListings == ListingsOf(BranchShapes, BranchMR)

Commit(k, email, msg) == [id |-> k, message |-> msg, author_email |-> email]

FewCommitLists ==
    {<<>>,
     <<Commit(1, OwnEmail, Fix)>>,
     <<Commit(1, OwnEmail, MergeBranchPrefix \o <<"x">>)>>,
     <<Commit(1, OtherEmail, Fix)>>}

RefLists == SUBSET {GrayRelease, Release, Main, Master}

Issue(key, type) ==
    [key |-> key,
     fields |-> [summary |-> Fix, issuetype |-> [name |-> type],
                 status |-> [name |-> "Done"]]]

IssueLists == {<<>>, <<Issue(KeyAB7, "Bug")>>}

\* the listings of exactly one merge request
SingleListings(Shapes, Make(_, _)) == {<<Make(1, sh)>> : sh \in Shapes}

\* commit lists that differ in author and message
MixedEmail == <<"A","L","@","x">>
Emails == {OwnEmail, MixedEmail, OtherEmail}
Messages ==
    {Fix,
     MergeBranchPrefix \o <<"x">>,
     MergeRemotePrefix \o <<"x">>,
     SubSeq(MergeBranchPrefix, 1, Len(MergeBranchPrefix) - 1),
     Fix \o <<NL>> \o MergeBranchPrefix \o <<"x">>,
     ToLower(MergeBranchPrefix) \o <<"x">>}

ManyCommitLists ==
    UNION {{[k \in 1..n |-> Commit(k, f[k][1], f[k][2])] :
                f \in [1..n -> Emails \X Messages]} : n \in 0..MaxCommits}

OneCommitList == {<<Commit(1, OwnEmail, Fix)>>}

CommitRunShapes == [state : {"opened", "merged"}, br : {<<Feature, Main>>}, sha : {"c1"}]

\* merge requests that differ in the text the keys are extracted from
KeyCD9 == <<"C","D","-","9">>
Dev == <<"d","e","v">>
TextShapes ==
    [title : {Fix, KeyAB7 \o <<SP, "x">>, <<"A","-","1">>},
     source : {Dev, Feature},
     target : {Main, KeyCD9},
     description : {NullText, KeyCD9}]

TextMR(k, sh) ==
    [iid |-> k, title |-> sh.title, description |-> sh.description, state |-> "opened",
     source_branch |-> sh.source, target_branch |-> sh.target,
     created_at |-> (MaxDay - 1) * TicksPerDay, merged_at |-> NoTime,
     updated_at |-> (MaxDay - 1) * TicksPerDay, merge_commit_sha |-> NoSha]

TextListings == ListingsOf(TextShapes, TextMR)

\* merge requests that differ in state and in their three times
TimeShapes ==
    [state : {"opened", "merged", "closed", "locked"},
     created : Instants, merged : Instants \cup {NoTime}, updated : Instants]

TimeMR(k, sh) ==
    [iid |-> k, title |-> Fix, description |-> NullText, state |-> sh.state,
     source_branch |-> Feature, target_branch |-> Main,
     created_at |-> sh.created, merged_at |-> sh.merged, updated_at |-> sh.updated,
     merge_commit_sha |-> NoSha]

TimeListings == SingleListings(TimeShapes, TimeMR)

\* directory entries under GIT_REPOS_DIR
Remotes == {NoRemote, <<"g","l","/","r">>, <<"h","b","/","r">>, <<"h","b","/","g","l">>}
Logs == {<<>>, Fix \o <<NL>>, KeyCD9 \o <<NL>> \o Fix \o <<NL>>}

Entry(isDir, hasGit, remote, logFails, log) ==
    [isDirectory |-> isDir, hasGit |-> hasGit, remote |-> remote,
     logFails |-> logFails, log |-> log]

EntryShapes ==
    {Entry(FALSE, FALSE, NoRemote, FALSE, <<>>), Entry(TRUE, FALSE, NoRemote, FALSE, <<>>)}
    \cup {Entry(TRUE, TRUE, r, FALSE, l) : r \in Remotes, l \in Logs}
    \cup {Entry(TRUE, TRUE, r, TRUE, <<>>) : r \in Remotes}

Named(k, e) ==
    [name |-> k, isDirectory |-> e.isDirectory, hasGit |-> e.hasGit,
     remote |-> e.remote, logFails |-> e.logFails, log |-> e.log]

EntryLists ==
    UNION {{[k \in 1..n |-> Named(k, f[k])] : f \in [1..n -> EntryShapes]} :
              n \in 0..MaxRepos}

\* at most one matching clone, with each of the logs
FewEntryLists ==
    {<<>>} \cup {<<Named(1, Entry(TRUE, TRUE, <<"g","l","/","r">>, FALSE, l))>> : l \in Logs}

DirStates == {"unset", "missing", "unreadable", "listed"}

(***************************************************************************)
(* Spec: the detail revision of collectAll over merge requests that differ *)
(* in state, branches and merge commit.                                    *)
(***************************************************************************)
Next ==
    \/ CallCollectAll({"detail"}, OneDay)
    \/ CollectGitLabMRs(BranchListings)
    \/ FetchMRCommits(FewCommitLists)
    \/ FetchCommitRefs(RefLists)
    \/ ReturnMRDetails
    \/ ExtractKeys
    \/ JiraLogin
    \/ JiraSearch(IssueLists)

Spec == Init /\ [][Next]_vars

(***************************************************************************)
(* Properties of the reconciliation (collectMRDetails), under Spec.        *)
(***************************************************************************)
SeqRange(q) == {q[k] : k \in DOMAIN q}

\* every MRDetail built so far: the local list and the returned one
AllDetails == SeqRange(details) \cup SeqRange(mrDetails)

\* the merge commit of d's item was looked up and the answer was refs
RefsOf(d) == refsSeen[d.mr.iid]
LookedUp(d) ==
    d.mr.state = "merged" /\ d.mr.mergeCommitSha # NoSha /\ d.mr.iid \in DOMAIN refsSeen

LongLived == {Main, Master, GrayRelease, Release}

\* C1: every reported work item whose lifecycle state is not merged has the
\* delivery stage "in development", whatever its branches and merge commit.
C1_NotMergedInDevelopment ==
    \A d \in AllDetails : d.mr.state # "merged" => d.deployStatus = InDevelopment

\* an open item towards release with a merge commit SHA is reported
C1_Witness ==
    \E d \in SeqRange(mrDetails) :
        /\ d.mr.state = "opened"
        /\ d.mr.targetBranch = Release
        /\ d.mr.mergeCommitSha # NoSha
        /\ d.deployStatus = InDevelopment

C3_ReleaseOutranksIntegration ==
    \A d \in AllDetails :
        (LookedUp(d) /\ Release \in RefsOf(d) /\ GrayRelease \notin RefsOf(d)) =>
            d.deployStatus = Released

\* scenario 1: the merge commit is on main and on release
C3_Witness ==
    \E d \in SeqRange(mrDetails) :
        /\ LookedUp(d)
        /\ RefsOf(d) = {Release, Main}
        /\ d.deployStatus = Released

\* the stage the claim infers from a target branch name
StageOfTarget(b) ==
    CASE b = Release -> Released
      [] b = GrayRelease -> InRollout
      [] b \in {Main, Master} -> InTesting
      [] OTHER -> InDevelopment

\* C4 as stated: a merged item whose merge commit no long-lived branch
\* contains has the stage inferred from its target branch name.
C4_FallbackWhenOnNoBranch ==
    \A d \in AllDetails :
        (LookedUp(d) /\ RefsOf(d) \cap LongLived = {}) =>
            d.deployStatus = StageOfTarget(d.mr.targetBranch)

\* C4 amended: the stage is inferred from the target branch name only for a
\* merged item that has no merge commit SHA; a merged item whose merge commit
\* no long-lived branch contains is "in development" whatever its target.
C4_FallbackOnlyWithoutSha ==
    \A d \in AllDetails :
        /\ (d.mr.state = "merged" /\ d.mr.mergeCommitSha = NoSha) =>
               d.deployStatus = StageOfTarget(d.mr.targetBranch)
        /\ (LookedUp(d) /\ RefsOf(d) \cap LongLived = {}) =>
               d.deployStatus = InDevelopment

\* both cases, towards release: without a SHA, and with a SHA on no branch
C4_Witness ==
    /\ \E d \in SeqRange(mrDetails) :
        /\ d.mr.state = "merged" /\ d.mr.mergeCommitSha = NoSha
        /\ d.mr.targetBranch = Release /\ d.deployStatus = Released
    /\ \E d \in SeqRange(mrDetails) :
        /\ LookedUp(d) /\ RefsOf(d) = {}
        /\ d.mr.targetBranch = Release /\ d.deployStatus = InDevelopment

\* C5: for an item whose source and target are both long-lived branches
\* no commit-list and no refs request is issued, and it is in no MRDetail.
C5_PromotionExcluded ==
    \A k \in DOMAIN mrs :
        (mrs[k].sourceBranch \in LongLived /\ mrs[k].targetBranch \in LongLived) =>
            /\ \A j \in DOMAIN reqs :
                   reqs[j].kind \in {"commits", "refs"} => reqs[j].iid # mrs[k].iid
            /\ \A d \in AllDetails : d.mr.iid # mrs[k].iid

\* a run that reconciled a feature item beside a merged release -> main item
C5_Witness ==
    /\ pc = "done"
    /\ mrDetails # <<>>
    /\ \E k \in DOMAIN mrs :
        /\ mrs[k].sourceBranch = Release /\ mrs[k].targetBranch = Main
        /\ mrs[k].state = "merged" /\ mrs[k].mergeCommitSha # NoSha

\* the claim's reading of a commit that counts for the configured user
OwnCommit(c) == ToLower(SplitFirst(c.author_email, "@")) = ToLower(Username)
NoisePattern(m) ==
    \E mid \in {<<>>, <<"r","e","m","o","t","e","-","t","r","a","c","k","i","n","g"," ">>} :
        StartsWith(m, <<"M","e","r","g","e"," ">> \o mid \o <<"b","r","a","n","c","h"," ">>)
NoQualifyingCommit(raw) ==
    \A k \in DOMAIN raw : ~OwnCommit(raw[k]) \/ NoisePattern(raw[k].message)

\* the items whose commit list was answered and left nothing after filtering
Unattributed == {i \in DOMAIN rawCommits : NoQualifyingCommit(rawCommits[i])}

\* C10 as stated: an item with no qualifying commit is nowhere in the
\* snapshot: neither in mrDetails nor in mrs.
C10_DroppedEverywhere ==
    pc = "done" =>
        \A i \in Unattributed :
            /\ \A d \in SeqRange(Snapshot.mrDetails) : d.mr.iid # i
            /\ \A k \in DOMAIN Snapshot.mrs : Snapshot.mrs[k].iid # i

\* C10 amended: an item with no qualifying commit is dropped from the
\* reconciled items (mrDetails) only; it stays in the snapshot's list mrs.
C10_DroppedFromDetailsOnly ==
    \A i \in Unattributed :
        /\ \A d \in AllDetails : d.mr.iid # i
        /\ \E k \in DOMAIN mrs : mrs[k].iid = i

\* a finished run with one item dropped for its commits and one reported
C10_Witness ==
    /\ pc = "done"
    /\ mrDetails # <<>>
    /\ \E i \in Unattributed : rawCommits[i] # <<>>

\* C28: when a commit-list or branch-membership request failed, the
\* reconciliation result is empty although details of earlier items had
\* been computed, the work-item list is the filtered listing, and the
\* tracker is asked for the keys of the work items as in any other run.
C28_DetailFailureEmptiesDetails ==
    "details" \in warnings =>
        /\ mrDetails = <<>>
        /\ mrs = FilterMRs(listing, range)
        /\ pc \in {"login", "search", "done"} => keys = KeysOfMRs(<<>>, mrs)
        /\ pc = "done" => (keys # <<>> <=> \E j \in DOMAIN reqs : reqs[j].kind = "login")
        /\ (pc = "done" /\ "jira" \notin warnings /\ keys # <<>>) =>
               \E j \in DOMAIN reqs : reqs[j].kind = "search"

\* the detail of the first item had been computed when the request for the
\* second failed: the run returned no details, both work items and the
\* tracked issue
C28_Witness ==
    /\ pc = "done"
    /\ "details" \in warnings
    /\ Len(details) = 1
    /\ mrDetails = <<>>
    /\ Len(mrs) = 2
    /\ jiraIssues # <<>>

(***************************************************************************)
(* SpecCommits: the detail revision over one merge request whose commit    *)
(* list differs in authors and messages.                                   *)
(***************************************************************************)
NextCommits ==
    \/ CallCollectAll({"detail"}, OneDay)
    \/ CollectGitLabMRs(SingleListings(CommitRunShapes, BranchMR))
    \/ FetchMRCommits(ManyCommitLists)
    \/ FetchCommitRefs({{}, {Release}})
    \/ ReturnMRDetails
    \/ ExtractKeys
    \/ JiraLogin
    \/ JiraSearch(IssueLists)

SpecCommits == Init /\ [][NextCommits]_vars

\* C6: no commit whose message matches /^Merge (remote-tracking )?branch /
\* is in the commit list of a reconciled work item.
C6_NoNoiseCommit ==
    \A d \in AllDetails : \A k \in DOMAIN d.commits :
        /\ ~NoisePattern(d.commits[k].message)
        /\ \A j \in DOMAIN rawCommits[d.mr.iid] :
               rawCommits[d.mr.iid][j].id = d.commits[k].sha =>
                   ~NoisePattern(rawCommits[d.mr.iid][j].message)

\* a reported item whose answer held a "Merge remote-tracking branch" commit
\* of the user beside a commit that was kept
C6_Witness ==
    \E d \in SeqRange(mrDetails) :
        /\ Len(d.commits) = 1
        /\ Len(rawCommits[d.mr.iid]) = 2
        /\ \E j \in DOMAIN rawCommits[d.mr.iid] :
               /\ OwnCommit(rawCommits[d.mr.iid][j])
               /\ StartsWith(rawCommits[d.mr.iid][j].message, MergeRemotePrefix)

\* C13: every commit in the commit list of a reconciled work item was
\* written by an author whose email local-part equals the configured
\* username, compared without regard to case.
C13_OnlyOwnCommits ==
    \A d \in AllDetails : \A k \in DOMAIN d.commits :
        /\ \E j \in DOMAIN rawCommits[d.mr.iid] :
               rawCommits[d.mr.iid][j].id = d.commits[k].sha
        /\ \A j \in DOMAIN rawCommits[d.mr.iid] :
               rawCommits[d.mr.iid][j].id = d.commits[k].sha =>
                   OwnCommit(rawCommits[d.mr.iid][j])

\* a reported item whose answer held a commit of another author beside a
\* commit whose author email differs from the username in case only
C13_Witness ==
    \E d \in SeqRange(mrDetails) :
        /\ Len(d.commits) = 1
        /\ Len(rawCommits[d.mr.iid]) = 2
        /\ \E i, j \in DOMAIN rawCommits[d.mr.iid] :
               /\ rawCommits[d.mr.iid][i].author_email = OtherEmail
               /\ rawCommits[d.mr.iid][i].message = Fix
               /\ rawCommits[d.mr.iid][j].author_email = MixedEmail
               /\ rawCommits[d.mr.iid][j].id = d.commits[1].sha

(***************************************************************************)
(* SpecKeys: both revisions over merge requests and local commits that     *)
(* differ in the text the issue keys are extracted from.                   *)
(***************************************************************************)
NextKeys ==
    \/ CallCollectAll({"detail", "commit"}, OneDay)
    \/ CollectGitLabMRs(TextListings)
    \/ FetchMRCommits(OneCommitList)
    \/ ReturnMRDetails
    \/ CollectGitCommits({"unset", "listed"}, FewEntryLists)
    \/ ExtractKeys
    \/ JiraLogin
    \/ JiraSearch(IssueLists)

SpecKeys == Init /\ [][NextKeys]_vars

TrackerRequests == {j \in DOMAIN reqs : reqs[j].kind \in {"login", "search"}}

\* C7: when the key set extracted from all sources is empty, the tracker
\* step issues neither the login nor the search request and returns an
\* empty list without an error.
C7_NoKeysNoTrackerCall ==
    (pc \in {"login", "search", "done"} /\ keys = <<>>) =>
        /\ TrackerRequests = {}
        /\ pc = "done"
        /\ jiraIssues = <<>>
        /\ "jira" \notin warnings

\* the commit revision finished with work items and local commits, no key
C7_Witness ==
    /\ variant = "commit"
    /\ pc = "done"
    /\ keys = <<>>
    /\ mrs # <<>>
    /\ commits # <<>>
    /\ TrackerRequests = {}

\* the issue keys that occur in one text
KeysIn(text) == SeqRange(AddMatches(<<>>, text, 1))

\* the keys of the local commit messages (commit revision only)
CommitKeys ==
    IF variant = "commit"
    THEN UNION {KeysIn(commits[k].message) : k \in DOMAIN commits}
    ELSE {}

\* the keys of title, source branch, target branch and description
KeysWithTarget ==
    UNION {KeysIn(mrs[k].title) \cup KeysIn(mrs[k].sourceBranch)
             \cup KeysIn(mrs[k].targetBranch) \cup KeysIn(OrEmpty(mrs[k].description)) :
           k \in DOMAIN mrs} \cup CommitKeys

\* the keys of title, source branch and description
KeysWithoutTarget ==
    UNION {KeysIn(mrs[k].title) \cup KeysIn(mrs[k].sourceBranch)
             \cup KeysIn(OrEmpty(mrs[k].description)) :
           k \in DOMAIN mrs} \cup CommitKeys

NoDuplicates(q) == \A i, j \in DOMAIN q : q[i] = q[j] => i = j
Logins == {j \in DOMAIN reqs : reqs[j].kind = "login"}
Searches == {j \in DOMAIN reqs : reqs[j].kind = "search"}

\* the tracker was asked once: one login, then one search
AskedOnce ==
    /\ Cardinality(Logins) = 1
    /\ Cardinality(Searches) = 1
    /\ \A i \in Logins, j \in Searches : i < j

\* C12 as stated: the key set holds every key of title, source branch,
\* target branch and description (and of the commit messages), each once,
\* and a non-empty set is sent in one login followed by one search.
C12_KeysOfAllFields ==
    pc \in {"login", "search", "done"} =>
        /\ SeqRange(keys) = KeysWithTarget
        /\ NoDuplicates(keys)
        /\ (pc = "done" /\ keys # <<>> /\ "jira" \notin warnings) => AskedOnce

\* C12 amended: the key set holds every key of title, source branch and
\* description (and of the commit messages), each once; the target branch
\* is not scanned.  At most one login and one search are issued, the search
\* after the login, and both when the tracker step did not fail.
C12_KeysOfScannedFields ==
    /\ Cardinality(Logins) <= 1 /\ Cardinality(Searches) <= 1
    /\ \A i \in Logins, j \in Searches : i < j
    /\ pc \in {"login", "search", "done"} =>
        /\ SeqRange(keys) = KeysWithoutTarget
        /\ NoDuplicates(keys)
        /\ (pc = "done" /\ keys # <<>> /\ "jira" \notin warnings) => AskedOnce
        /\ keys = <<>> => Logins = {} /\ Searches = {}

\* the tracker answered for one key that title and source branch both
\* carry, while the target branch carries a key that was not sent
C12_Witness ==
    /\ pc = "done"
    /\ "jira" \notin warnings
    /\ AskedOnce
    /\ keys = <<KeyAB7>>
    /\ \E k \in DOMAIN mrs :
        /\ KeyAB7 \in KeysIn(mrs[k].title)
        /\ KeyAB7 \in KeysIn(mrs[k].sourceBranch)
        /\ KeysIn(mrs[k].targetBranch) = {KeyCD9}

(***************************************************************************)
(* SpecWindow: the listing step of both revisions over every window and    *)
(* one merge request with every state and every combination of times.      *)
(***************************************************************************)
NextWindow ==
    \/ CallCollectAll({"detail", "commit"}, Windows)
    \/ CollectGitLabMRs(TimeListings)

SpecWindow == Init /\ [][NextWindow]_vars

\* the claim's window: the calendar days from..to, UTC
DayOf(t) == t \div TicksPerDay
WithinDays(t, r) == r.from <= DayOf(t) /\ DayOf(t) <= r.to

NextGit ==
    \/ CallCollectAll({"commit"}, OneDay)
    \/ CollectGitLabMRs(SingleListings(TextShapes, TextMR))
    \/ CollectGitCommits(DirStates, EntryLists)
    \/ ExtractKeys
    \/ JiraLogin
    \/ JiraSearch(IssueLists)

SpecGit == Init /\ [][NextGit]_vars

\* C9: whichever source fails, collectAll is not aborted: it returns a
\* snapshot in which the failed source contributes an empty result.
C9_NeverAborted ==
    /\ pc # "aborted"
    /\ pc = "done" =>
        /\ "gitlab" \in warnings => Snapshot.mrs = <<>>
        /\ "jira" \in warnings => Snapshot.jiraIssues = <<>>

(***************************************************************************)
(* SpecHotfix: the detail revision over one merge request with every       *)
(* target branch, state and merge commit.                                  *)
(***************************************************************************)
HotfixShapes ==
    [state : {"opened", "merged"},
     br : {<<Feature, t>> : t \in {Main, Master, Release, GrayRelease, Dev}},
     sha : {NoSha, "c1"}]

NextHotfix ==
    \/ CallCollectAll({"detail"}, OneDay)
    \/ CollectGitLabMRs(SingleListings(HotfixShapes, BranchMR))
    \/ FetchMRCommits(FewCommitLists)
    \/ FetchCommitRefs(RefLists)
    \/ ReturnMRDetails
    \/ ExtractKeys
    \/ JiraLogin
    \/ JiraSearch(IssueLists)

SpecHotfix == Init /\ [][NextHotfix]_vars

\* C11: a reconciled work item is marked isHotfix exactly when its target
\* branch is neither main nor master, whatever its state and delivery stage.
C11_HotfixIffOffMainline ==
    \A d \in AllDetails :
        d.isHotfix <=> (d.mr.targetBranch \notin {Main, Master})

\* a merged item towards master whose merge commit is on release: released,
\* and no hotfix
C11_Witness ==
    \E d \in SeqRange(mrDetails) :
        /\ d.mr.targetBranch = Master
        /\ d.mr.state = "merged"
        /\ d.deployStatus = Released
        /\ ~d.isHotfix

\* the host of an origin URL, written host/path
OriginHost(remote) == SplitFirst(remote, "/")

\* the origin of a directory entry is a clone of the configured code host
OnConfiguredHost(e) ==
    e.isDirectory /\ e.hasGit /\ e.remote # NoRemote /\ OriginHost(e.remote) = Hostname

CommitsOfRepo(name) == {k \in DOMAIN commits : commits[k].repo = name}

\* C15: a clone whose origin is not on the configured code host adds no
\* commit and no summary line; every summary line is of a clone on that
\* host with at least one commit, and counts the commits the clone added.
C15_ForeignCloneAbsent ==
    pc \in {"jira", "login", "search", "done"} =>
        /\ \A k \in DOMAIN clones :
               ~OnConfiguredHost(clones[k]) =>
                   /\ CommitsOfRepo(clones[k].name) = {}
                   /\ \A j \in DOMAIN gitSummary : gitSummary[j].repo # clones[k].name
        /\ \A j \in DOMAIN gitSummary :
               /\ \E k \in DOMAIN clones :
                      clones[k].name = gitSummary[j].repo /\ OnConfiguredHost(clones[k])
               /\ gitSummary[j].commitCount >= 1
               /\ gitSummary[j].commitCount = Cardinality(CommitsOfRepo(gitSummary[j].repo))

(***************************************************************************)
(* The command line: what the user and the files give an invocation.       *)
(***************************************************************************)
\* no invocation yet, nothing in the drafts directory, no thread file
InitCli ==
    /\ pc = "idle"
    /\ InitCollector
    /\ threadFile = NoThreadFile
    /\ InitShell("idle", "none", <<>>, {})

Address == <<"a","@","x">>

\* a complete .env with threading as given
EnvWith(user, pass, to, threading) ==
    [present |-> TRUE, required |-> TRUE, SMTP_USER |-> user, SMTP_PASS |-> pass,
     MAIL_TO |-> to, MAIL_THREAD |-> threading]

GoodEnv == EnvWith(<<"u">>, <<"p">>, Address, FALSE)

\* the collection of a draft that the renderer is given: one merge request
\* or none, local commits with and without a key, tracker answers
RenderShapes == [state : {"opened"}, br : {<<Feature, Main>>}, sha : {NoSha}]
RenderListings == {<<>>} \cup SingleListings(RenderShapes, BranchMR)
RenderEntryLists ==
    {<<>>, <<Named(1, Entry(TRUE, TRUE, <<"g","l","/","r">>, FALSE,
                            KeyCD9 \o <<NL>> \o Fix \o <<NL>>))>>}
RenderIssueLists == {<<>>, <<Issue(KeyCD9, "Bug"), Issue(KeyAB7, "Story")>>}

(***************************************************************************)
(* SpecRender: `draft` invocations one after the other, each rendering the *)
(* snapshot its collection returned.                                       *)
(***************************************************************************)
NextRender ==
    \/ InvokeDraft({"draft"}, {GoodEnv}, OneDay)
    \/ CallCollectAll({"commit"}, {window})
    \/ CollectGitLabMRs(RenderListings)
    \/ CollectGitCommits({"listed"}, RenderEntryLists)
    \/ ExtractKeys
    \/ JiraLogin
    \/ JiraSearch(RenderIssueLists)
    \/ RenderDraft
    \/ SaveDraft({FALSE})

SpecRender == InitCli /\ [][NextRender]_vars

Answers == {<<"y">>, <<"Y">>, <<SP, "y">>, <<"y", "e", "s">>, <<"n">>, <<>>}

\* .env files: none, one without a required key, and complete ones that
\* differ in the mail settings
MailEnvs ==
    {NoEnv, [NoEnv EXCEPT !.present = TRUE]}
    \cup {EnvWith(u, pw, to, th) :
             u \in {<<>>, <<"u">>}, pw \in {<<>>, <<"p">>},
             to \in {<<>>, <<SP, ",">>, Address}, th \in BOOLEAN}

\* .mail-thread.json before the first invocation
ThreadFiles ==
    {NoThreadFile,
     [kind |-> "corrupt", messageId |-> <<>>, references |-> <<>>],
     [kind |-> "null", messageId |-> <<>>, references |-> <<>>],
     [kind |-> "state", messageId |-> MessageId(0), references |-> <<MessageId(0)>>]}

\* the snapshot of a week without activity, and its draft
EmptyData ==
    [dateRange |-> [from |-> MaxDay - 1, to |-> MaxDay - 1], mrs |-> <<>>,
     jiraIssues |-> <<>>, commits |-> <<>>, gitSummary |-> <<>>]
DraftOnDisk ==
    WriteFile(<<>>, DraftName(DateText(MaxDay - 1)),
              generateMarkdown(EmptyData, loadConfig(GoodEnv)))

InitMail ==
    /\ pc = "idle"
    /\ InitCollector
    /\ threadFile \in ThreadFiles
    /\ \/ InitShell("idle", "none", <<>>, {})
       \/ InitShell("idle", "none", DraftOnDisk, {MaxDay - 1})

NextMail ==
    \/ InvokeSend(MailEnvs)
    \/ RenderMail
    \/ Confirm(Answers)
    \/ SubmitMail

SpecMail == InitMail /\ [][NextMail]_vars

MailRequests == {j \in DOMAIN reqs : reqs[j].kind = "mail"}

\* C16: with an empty recipient list no transport is made and nothing is
\* submitted to the relay, and a send that got as far as sendMail ended in
\* a configuration error.
C16_NoRecipientsNoTransport ==
    (cmd = "send" /\ config.loaded /\ Len(config.MAIL_TO) = 0) =>
        /\ transports = 0
        /\ MailRequests = {}
        /\ cpc # "submit"
        /\ cpc = "idle" => exit \in {"cancelled", "smtp", "recipients"}

\* the credentials are set, MAIL_TO holds only blanks and a comma, the
\* prompt was answered y: the send failed for its recipients
C16_Witness ==
    /\ cmd = "send"
    /\ dotenv.SMTP_USER # <<>> /\ dotenv.SMTP_PASS # <<>>
    /\ dotenv.MAIL_TO = <<SP, ",">>
    /\ exit = "recipients"
    /\ transports = 0

\* C18: no step of a send, failed or not, changes the drafts directory.
C18_SendKeepsDrafts ==
    [][(cmd' = "send" \/ cpc \in {"askSend", "html", "confirm", "submit"}) =>
          files' = files]_vars

\* the relay refused the message, and the draft that was to be sent is on
\* disk as it was read
C18_Witness ==
    /\ exit = "relay"
    /\ cpc = "idle"
    /\ draftPath \in DOMAIN files
    /\ files[draftPath] = markdown

\* the messages sent with threading on, in the order they were sent
Threaded == SelectSeq(outbox, LAMBDA m : m.threaded)
IdsUpTo(k) == [j \in 1..k |-> Threaded[j].id]

\* C20: starting without thread state, the first threaded send carries no
\* threading header, send k replies to send k-1 and refers to sends
\* 1..k-1 in order, and the state holds the last identifier and all of them.
C20_ThreadChain ==
    threadInit.kind = "absent" =>
        /\ \A k \in DOMAIN Threaded :
               Threaded[k].headers =
                   IF k = 1 THEN NoHeaders
                   ELSE [set |-> TRUE, inReplyTo |-> Threaded[k - 1].id,
                         references |-> JoinSpace(IdsUpTo(k - 1))]
        /\ Threaded # <<>> =>
               threadFile = [kind |-> "state",
                             messageId |-> Threaded[Len(Threaded)].id,
                             references |-> IdsUpTo(Len(Threaded))]

\* three threaded sends: the third refers to the first two
C20_Witness ==
    /\ threadInit.kind = "absent"
    /\ Len(Threaded) = 3
    /\ Threaded[3].headers.inReplyTo = Threaded[2].id
    /\ Threaded[3].headers.references = Threaded[1].id \o <<SP>> \o Threaded[2].id
    /\ threadFile.references = <<Threaded[1].id, Threaded[2].id, Threaded[3].id>>

(***************************************************************************)
(* SpecFlow: `draft`, `send` and `run` invocations over every .env.        *)
(***************************************************************************)
\* .env files: none, one without a required key, a complete one, one
\* without the SMTP password, one without recipients
FlowEnvs ==
    {NoEnv, [NoEnv EXCEPT !.present = TRUE], GoodEnv,
     EnvWith(<<"u">>, <<>>, Address, FALSE), EnvWith(<<"u">>, <<"p">>, <<>>, FALSE)}

NextFlow ==
    \/ InvokeDraft({"draft", "run"}, FlowEnvs, OneDay)
    \/ InvokeSend(FlowEnvs)
    \/ CallCollectAll({"commit"}, {window})
    \/ CollectGitLabMRs(RenderListings)
    \/ CollectGitCommits({"unset", "unreadable"}, {<<>>})
    \/ ExtractKeys
    \/ JiraLogin
    \/ JiraSearch(IssueLists)
    \/ AbortDraft
    \/ RenderDraft
    \/ SaveDraft(BOOLEAN)
    \/ AskSend(Answers)
    \/ RenderMail
    \/ Confirm(Answers)
    \/ SubmitMail

SpecFlow == InitCli /\ [][NextFlow]_vars

\* the invocation ended in a configuration error
ConfigError == cpc = "idle" /\ exit \in {"config", "smtp", "recipients"}

\* C17 as stated: when an invocation ends in a configuration error (a
\* required credential, the SMTP credentials or the recipients are
\* missing), it has issued no request to any remote service.
C17_ConfigErrorBeforeNetwork ==
    ConfigError => (reqs = <<>> /\ transports = 0)

\* an invocation was started with this .env
Started == cmd \in {"draft", "send", "run"}

\* C17 amended: with a required credential missing, the invocation ends
\* before it issues any request; with the SMTP credentials or the
\* recipients missing, no transport is made and nothing is sent to the mail
\* relay, and a `send` issues no request at all, while a `run` has issued
\* the requests of its collection before the error is raised.
C17_ConfigErrorBeforeItsRequests ==
    /\ (Started /\ (~dotenv.present \/ ~dotenv.required)) =>
           (reqs = <<>> /\ transports = 0 /\ cpc = "idle"
              /\ exit \in {"config", "nodraft"})
    /\ (Started /\ (dotenv.SMTP_USER = <<>> \/ dotenv.SMTP_PASS = <<>>
                      \/ ListOf(dotenv.MAIL_TO) = <<>>)) =>
           (MailRequests = {} /\ transports = 0 /\ (cmd = "send" => reqs = <<>>))
    /\ ConfigError =>
           (MailRequests = {} /\ transports = 0 /\ (cmd # "run" => reqs = <<>>))

\* a `run` collected from the code host, and its send step then failed for
\* the missing recipients
C17_Witness ==
    /\ cmd = "run"
    /\ cpc = "idle"
    /\ exit = "recipients"
    /\ \E j \in DOMAIN reqs : reqs[j].kind = "listing"
    /\ MailRequests = {}

(***************************************************************************)
(* SpecDrafts: `draft` invocations over every window and `preview`         *)
(* invocations, one after the other.                                       *)
(***************************************************************************)
NextDrafts ==
    \/ InvokeDraft({"draft"}, {GoodEnv}, Windows)
    \/ InvokePreview({GoodEnv, NoEnv})
    \/ CallCollectAll({"commit"}, {window})
    \/ CollectGitLabMRs({<<>>})
    \/ CollectGitCommits({"unset"}, {<<>>})
    \/ ExtractKeys
    \/ RenderDraft
    \/ SaveDraft({FALSE})
    \/ WritePreview

SpecDrafts == InitCli /\ [][NextDrafts]_vars

\* the latest of a non-empty set of days
LatestDay(days) == CHOOSE d \in days : \A e \in days : e <= d

\* C19: getLatestDraft returns the draft of the latest end day saved so
\* far, and null exactly when no draft has been saved.
C19_LatestDraftIsLatestDay ==
    /\ getLatestDraft(files) = NullText <=> saved = {}
    /\ saved # {} =>
           getLatestDraft(files) = DraftName(DateText(LatestDay(saved)))

\* a draft for the first day of the new year, a preview, then a draft for
\* an end day in the old year: the latest is still the first one
C19_Witness ==
    /\ cpc = "idle"
    /\ PreviewName \in DOMAIN files
    /\ saved = {MaxDay, MaxDay - 1}
    /\ window.to = MaxDay - 1
    /\ getLatestDraft(files) = DraftName(DateText(MaxDay))

(***************************************************************************)
(* Threading switched off, and failed submissions (SpecMail).              *)
(***************************************************************************)
\* C21: with MAIL_THREAD off, sendMail holds the empty thread and builds no
\* In-Reply-To or References header whatever .mail-thread.json contains,
\* every message sent that way carries none, and no step of such a send,
\* failed or not, changes .mail-thread.json.
C21_UnthreadedSendLeavesState ==
    /\ []((cmd = "send" /\ ~config.MAIL_THREAD) =>
             (thread = NoThread /\ headers = NoHeaders))
    /\ [](\A k \in DOMAIN outbox : ~outbox[k].threaded => outbox[k].headers = NoHeaders)
    /\ [][(cmd' = "send" /\ ~config'.MAIL_THREAD) => threadFile' = threadFile]_vars

\* a send with threading off was accepted by the relay while
\* .mail-thread.json held the state of an earlier message: the message has
\* no threading header and the file is as it was
C21_Witness ==
    /\ cmd = "send" /\ cpc = "idle" /\ exit = "ok"
    /\ ~config.MAIL_THREAD
    /\ threadInit.kind = "state"
    /\ threadFile = threadInit
    /\ Len(outbox) = 1
    /\ outbox[1].headers = NoHeaders

\* the identifiers of the messages the relay accepted
SentIds == {outbox[k].id : k \in DOMAIN outbox}

\* C27: .mail-thread.json changes only in the step in which the relay
\* accepts a threaded message, so a refused submission leaves it as it
\* was; a threaded send replies to the message the file names, and,
\* starting without a file, the file names only messages that were sent.
C27_FailedSendKeepsThread ==
    /\ [][threadFile' # threadFile =>
             (config.MAIL_THREAD /\ exit' = "ok" /\ Len(outbox') = Len(outbox) + 1)]_vars
    /\ []((cpc = "submit" /\ config.MAIL_THREAD) => headers = HeadersOf(loadThread(threadFile)))
    /\ [](threadInit.kind = "absent" =>
             /\ threadFile.kind \in {"absent", "state"}
             /\ threadFile.kind = "state" => threadFile.messageId \in SentIds
             /\ \A k \in DOMAIN threadFile.references :
                    threadFile.references[k] \in SentIds)

\* a threaded message was sent, and the next threaded send, a reply to it,
\* was refused by the relay: the file still names the first message only
C27_Witness ==
    /\ threadInit.kind = "absent"
    /\ config.MAIL_THREAD
    /\ cpc = "idle" /\ exit = "relay"
    /\ Len(outbox) = 1
    /\ headers.inReplyTo = outbox[1].id
    /\ threadFile = [kind |-> "state", messageId |-> outbox[1].id,
                     references |-> <<outbox[1].id>>]

(***************************************************************************)
(* SpecRequests: the remote requests of one run.  A run is a collectAll of *)
(* the detail revision (listing, commit lists, branch membership, tracker) *)
(* or a `run` invocation of the commit revision (listing, tracker, mail    *)
(* submission); every request may fail.  The renderer in src/ is that of   *)
(* the commit revision, so a detail run ends where collectAll returns.     *)
(* One run is followed from its start to its end.                          *)
(***************************************************************************)
\* merged and open feature items with a key in the branch name
RequestShapes == [state : {"merged", "opened"}, br : {<<Feature, Main>>}, sha : {"c1"}]
RequestListings == ListingsOf(RequestShapes, BranchMR)

InitRequests == Init \/ InitCli

NextRequests ==
    \/ (runs = 0 /\ InvokeDraft({"run"}, {GoodEnv}, OneDay))
    \/ CallCollectAll({variant}, IF variant = "detail" THEN OneDay ELSE {window})
    \/ CollectGitLabMRs(RequestListings)
    \/ FetchMRCommits({<<>>, <<Commit(1, OwnEmail, Fix)>>})
    \/ FetchCommitRefs({{}, {Main}})
    \/ ReturnMRDetails
    \/ CollectGitCommits({"unset"}, {<<>>})
    \/ ExtractKeys
    \/ JiraLogin
    \/ JiraSearch(IssueLists)
    \/ (variant = "commit" /\ RenderDraft)
    \/ SaveDraft({FALSE})
    \/ AskSend({<<"y">>, <<"n">>})
    \/ RenderMail
    \/ Confirm({<<"y">>, <<"n">>})
    \/ SubmitMail

SpecRequests == InitRequests /\ [][NextRequests]_vars


\* C22: within one run no remote request is issued twice, whether the
\* first one was answered or failed: the listing, the commit list of an
\* item, the branch membership of an item's merge commit, the tracker login,
\* the tracker search and the mail submission each appear at most once among
\* the requests of the run.
C22_NoRequestTwice == NoDuplicates(reqs)

\* a detail run in which the branch-membership request of the first item
\* and then the tracker login failed: four requests, none repeated
C22_Witness ==
    /\ pc = "done"
    /\ warnings = {"details", "jira"}
    /\ [k \in DOMAIN reqs |-> reqs[k].kind] = <<"listing", "commits", "refs", "login">>

(***************************************************************************)
(* SpecInFlight: the detail revision of collectAll with the issue of a     *)
(* request and its answer as two steps.  httpsRequest sends the request    *)
(* and returns a promise; the caller is suspended at its await until the   *)
(* answer or the failure arrives, and the action of the awaited call is    *)
(* the step that consumes it.                                              *)
(***************************************************************************)
\* the request the code issues next from its position, if any
NextRequest ==
    CASE pc = "listing" -> {Req("listing", 0)}
      [] pc = "details" /\ idx <= Len(featureMRs) -> {Req("commits", featureMRs[idx].iid)}
      [] pc = "refs" -> {Req("refs", featureMRs[idx].iid)}
      [] pc = "login" -> {Req("login", 0)}
      [] pc = "search" -> {Req("search", 0)}
      [] OTHER -> {}

\* the commit lists of all items asked for at once, as Promise.all over
\* featureMRs would
IssueRequest_AllItems ==
    /\ inflight = {}
    /\ NextRequest # {}
    /\ inflight' = IF pc = "details"
                   THEN {Req("commits", featureMRs[k].iid) : k \in idx..Len(featureMRs)}
                   ELSE NextRequest
    /\ UNCHANGED <<pc, variant, range, listing, mrs, idx, cur, details, mrDetails, keys,
                   jiraIssues, commits, gitSummary, reqs, refsSeen, rawCommits, clones,
                   warnings>>
    /\ UNCHANGED shell

\* httpsRequest is called: req.end() sends the request, and the caller waits
\* at its await; a caller that waits issues nothing
IssueRequest ==
    /\ inflight = {}
    /\ NextRequest # {}
    /\ inflight' = NextRequest
    /\ UNCHANGED <<pc, variant, range, listing, mrs, idx, cur, details, mrDetails, keys,
                   jiraIssues, commits, gitSummary, reqs, refsSeen, rawCommits, clones,
                   warnings>>
    /\ UNCHANGED shell

NextInFlight ==
    \/ CallCollectAll({"detail"}, OneDay)
    \/ IssueRequest
    \/ (inflight # {} /\ CollectGitLabMRs(RequestListings))
    \/ (inflight # {} /\ FetchMRCommits({<<>>, <<Commit(1, OwnEmail, Fix)>>}))
    \/ (inflight # {} /\ FetchCommitRefs({{}, {Main}}))
    \/ ReturnMRDetails
    \/ ExtractKeys
    \/ (inflight # {} /\ JiraLogin)
    \/ (inflight # {} /\ JiraSearch(IssueLists))

SpecInFlight == Init /\ [][NextInFlight]_vars

\* the position in featureMRs of the item a per-item request is about
ItemOf(r) == CHOOSE k \in DOMAIN featureMRs : featureMRs[k].iid = r.iid
PerItem(r) == r.kind \in {"commits", "refs"}
Tracker(r) == r.kind \in {"login", "search"}

\* C23: at most one request is in flight; a request in flight for an item
\* is for the item the loop is at, and every request for an earlier item
\* has been answered; the answered per-item requests are in the order of
\* the items, the commit list of an item before its branch membership; a
\* tracker request is issued only when collectMRDetails has returned or
\* failed, and no per-item request follows a tracker request.
C23_OneRequestInFlight ==
    /\ Cardinality(inflight) <= 1
    /\ \A r \in inflight :
          /\ r \notin SeqRange(reqs)
          /\ PerItem(r) =>
                /\ ItemOf(r) = idx
                /\ \A j \in DOMAIN reqs : PerItem(reqs[j]) => ItemOf(reqs[j]) <= idx
          /\ Tracker(r) =>
                (idx > Len(featureMRs) \/ "details" \in warnings)
    /\ \A i, j \in DOMAIN reqs :
          (i < j /\ PerItem(reqs[i]) /\ PerItem(reqs[j])) =>
              \/ ItemOf(reqs[i]) < ItemOf(reqs[j])
              \/ /\ ItemOf(reqs[i]) = ItemOf(reqs[j])
                 /\ reqs[i].kind = "commits" /\ reqs[j].kind = "refs"
    /\ \A i, j \in DOMAIN reqs :
          (Tracker(reqs[i]) /\ PerItem(reqs[j])) => j < i

\* the tracker search is in flight after the commit lists and the branch
\* memberships of two items and the login were answered, one after another
C23_Witness ==
    /\ inflight = {Req("search", 0)}
    /\ [k \in DOMAIN reqs |-> reqs[k].kind] =
           <<"listing", "commits", "refs", "commits", "refs", "login">>
    /\ reqs[2].iid = 1 /\ reqs[4].iid = 2

(***************************************************************************)
(* SpecTable: one `draft` invocation over listings whose merge requests    *)
(* are in every lifecycle state the code host knows.                       *)
(***************************************************************************)
\* GitLab's MergeRequest.state: 'opened' | 'closed' | 'merged' | 'locked'
HostStates == {"opened", "closed", "merged", "locked"}
StateShapes == [state : HostStates, br : {<<Dev, Main>>, <<Dev, Release>>}, sha : {NoSha}]
StateListings == ListingsOf(StateShapes, BranchMR)

NextTable ==
    \/ (runs = 0 /\ InvokeDraft({"draft"}, {GoodEnv}, OneDay))
    \/ CallCollectAll({"commit"}, {window})
    \/ CollectGitLabMRs(StateListings)
    \/ CollectGitCommits({"unset"}, {<<>>})
    \/ ExtractKeys
    \/ RenderDraft
    \/ SaveDraft({FALSE})

SpecTable == InitCli /\ [][NextTable]_vars

\* the lines of a text
RECURSIVE SplitLines(_)
SplitLines(s) ==
    LET first == SplitFirst(s, NL) IN
    IF Len(first) = Len(s) THEN <<first>>
    ELSE <<first>> \o SplitLines(SubSeq(s, Len(first) + 2, Len(s)))

\* the rows of the table of work items in a draft: the lines that open
\* with a cell holding a link
TableRows(md) ==
    SelectSeq(SplitLines(md), LAMBDA l : StartsWith(l, <<"|", " ", "[">>))

\* the lifecycle state the code host's state name stands for
Lifecycle(state) == IF state = "opened" THEN "open" ELSE state

\* the mapping of the renderer's contract
EmojiOf(lifecycle) ==
    CASE lifecycle = "merged" -> Check
      [] lifecycle = "open" -> Blue
      [] lifecycle = "closed" -> Red
      [] OTHER -> White

EmojisIn(row) == {row[k] : k \in DOMAIN row} \cap {Check, Blue, Red, White}

\* C24: the draft has one table row per work item of the snapshot, in
\* order, and the one emoji of a row is that of the item's lifecycle state:
\* merged a check mark, open a blue circle, closed a red circle, anything
\* else a white square; stateEmoji gives the same for every state name of
\* the code host.
C24_RowEmojiOfLifecycle ==
    cpc = "save" =>
        LET rows == TableRows(markdown) IN
        /\ \A st \in HostStates : stateEmoji(st) = EmojiOf(Lifecycle(st))
        /\ Len(rows) = Len(mrs)
        /\ \A k \in DOMAIN mrs :
              EmojisIn(rows[k]) = {EmojiOf(Lifecycle(mrs[k].state))}

\* a draft whose table has a row for an open item, with the blue circle,
\* and one for a locked item, with the white square
C24_Witness ==
    /\ cpc = "save"
    /\ Len(mrs) = 2
    /\ mrs[1].state = "opened" /\ mrs[2].state = "locked"
    /\ EmojisIn(TableRows(markdown)[1]) = {Blue}
    /\ EmojisIn(TableRows(markdown)[2]) = {White}

(***************************************************************************)
(* SpecRun: `draft` and `run` invocations for every end day, one after the *)
(* other, in weeks with a work item and without; in a `run` the user may   *)
(* add to the draft the editor shows, and answers the two prompts.         *)
(***************************************************************************)
\* the windows that start on the first day, one for every end day
WindowsTo == {[from |-> 0, to |-> d] : d \in 0..MaxDay}

\* a listing of one open item without a key
OneOpenItem == <<BranchMR(1, [state |-> "opened", br |-> <<Dev, Main>>, sha |-> NoSha])>>

NextRun ==
    \/ InvokeDraft({"draft", "run"}, {GoodEnv}, WindowsTo)
    \/ CallCollectAll({"commit"}, {window})
    \/ CollectGitLabMRs({<<>>, OneOpenItem})
    \/ CollectGitCommits({"unset"}, {<<>>})
    \/ ExtractKeys
    \/ RenderDraft
    \/ SaveDraft(BOOLEAN)
    \/ AskSend({<<"y">>, <<"n">>})
    \/ RenderMail
    \/ Confirm({<<"y">>, <<"n">>})
    \/ SubmitMail

SpecRun == InitCli /\ [][NextRun]_vars

\* C25 as stated: the draft a `run` opens in the editor and sends is the
\* draft that run generated, the one named by the end date of its window.
C25_RunSendsItsOwnDraft ==
    (cmd = "run" /\ cpc \in {"askSend", "html", "confirm", "submit"}) =>
        /\ draftPath = DraftName(DateText(window.to))
        /\ cpc # "askSend" => \E r \in renderings :
               /\ r[1].dateRange = window
               /\ markdown \in {r[2], r[2] \o Note}

(***************************************************************************)
(* The prompts (SpecFlow).                                                 *)
(***************************************************************************)
Yes == {<<"y">>, <<"Y">>}

\* sendMail was called in this invocation
SendMailReached ==
    \/ cpc = "submit"
    \/ MailRequests # {}
    \/ transports > 0
    \/ cpc = "idle" /\ cmd \in {"send", "run"}
         /\ exit \in {"smtp", "recipients", "thread", "relay"}

\* C26: sendMail is reached in `send` only after the one prompt was
\* answered y or Y, and in `run` only after both prompts were; after any
\* other answer the invocation has ended without a transport and without a
\* request to the mail relay, and the step that takes such an answer
\* changes neither a draft, nor the thread state, nor what the relay holds.
C26_SentOnlyWhenConfirmed ==
    /\ []((cmd = "send" /\ SendMailReached) =>
             (Len(answers) = 1 /\ answers[1] \in Yes))
    /\ []((cmd = "run" /\ SendMailReached) =>
             (Len(answers) = 2 /\ answers[1] \in Yes /\ answers[2] \in Yes))
    /\ []((answers # <<>> /\ answers[Len(answers)] \notin Yes) =>
             (cpc = "idle" /\ exit \in {"declined", "cancelled"}
                /\ transports = 0 /\ MailRequests = {}))
    /\ [][(answers' # answers /\ answers' # <<>> /\ answers'[Len(answers')] \notin Yes) =>
             UNCHANGED <<files, threadFile, outbox>>]_vars

\* a `run` whose first prompt was answered y and whose second was answered
\* yes: the draft is on disk, nothing was sent
C26_Witness ==
    /\ cmd = "run"
    /\ answers = <<<<"y">>, <<"y", "e", "s">>>>
    /\ cpc = "idle" /\ exit = "cancelled"
    /\ draftPath \in DOMAIN files
    /\ outbox = <<>>

(***************************************************************************)
(* The draft files (SpecRun).                                              *)
(***************************************************************************)
\* the Markdown files of the drafts directory
Drafts == {n \in DOMAIN files : EndsWith(n, MdSuffix)}

\* C29: the drafts directory holds exactly one Markdown file per end day a
\* draft was generated for.  The step that saves a draft writes the file of
\* its end day with the Markdown just generated, whatever the file held,
\* and adds no other file; a `draft` leaves every other file as it is, and
\* in a `run`, where the step includes the user's editing of the draft the
\* editor opened, a file differs at most by the note the user added.
C29_OneDraftPerEndDate ==
    /\ [](/\ Drafts = {DraftName(DateText(d)) : d \in saved}
          /\ Cardinality(Drafts) = Cardinality(saved))
    /\ [][(cpc = "save" /\ cpc' # "save") =>
             LET name == DraftName(DateText(window.to)) IN
             /\ DOMAIN files' = DOMAIN files \cup {name}
             /\ IF cmd = "draft"
                THEN /\ files'[name] = markdown
                     /\ \A n \in DOMAIN files \ {name} : files'[n] = files[n]
                ELSE /\ files'[name] \in {markdown, markdown \o Note}
                     /\ \A n \in DOMAIN files \ {name} :
                            files'[n] \in {files[n], files[n] \o Note}]_vars

\* a `draft` has replaced the draft of its end day by a second, different
\* generation for the same window, while the draft of another end day
\* still carries the note a user added to it
C29_Witness ==
    /\ cmd = "draft" /\ cpc = "idle" /\ exit = "ok"
    /\ Cardinality({r \in renderings : r[1].dateRange = window}) = 2
    /\ files[DraftName(DateText(window.to))] = markdown
    /\ Cardinality(Drafts) = 2
    /\ \E n \in Drafts :
          /\ n # DraftName(DateText(window.to))
          /\ EndsWith(files[n], Note)

(***************************************************************************)
(* SpecSubject: up to two `draft` invocations over every window, then      *)
(* `send` invocations; between them the user may rewrite the heading of    *)
(* the latest draft.                                                       *)
(***************************************************************************)
\* headings a user may give a draft: without a date, with one date, and
\* with a window written without blanks
Headings ==
    {<<"#", " ", "notes">>,
     <<"#", " ">> \o formatDate(DateText(0)),
     <<"#", " ">> \o formatDate(DateText(1)) \o <<"-">> \o formatDate(DateText(0))}

\* the user rewrites the first line of the draft the editor shows
EditHeading(Lines) ==
    /\ cpc = "idle"
    /\ getLatestDraft(files) # NullText
    /\ LET path == getLatestDraft(files)
           md == files[path]
       IN  \E line \in Lines :
             /\ firstLine(md) # line
             /\ files' = WriteFile(files, path,
                                   line \o SubSeq(md, Len(firstLine(md)) + 1, Len(md)))
    /\ UNCHANGED <<collector, cmd, cpc, dotenv, window, config, threadFile, thread,
                   headers, outbox, transports, exit, markdown, draftPath, answers,
                   mailRange, runs, saved, renderings, threadInit>>

NextSubject ==
    \/ (runs <= 1 /\ InvokeDraft({"draft"}, {GoodEnv}, Windows))
    \/ CallCollectAll({"commit"}, {window})
    \/ CollectGitLabMRs({<<>>})
    \/ CollectGitCommits({"unset"}, {<<>>})
    \/ ExtractKeys
    \/ RenderDraft
    \/ SaveDraft({FALSE})
    \/ EditHeading(Headings)
    \/ InvokeSend({GoodEnv})
    \/ RenderMail
    \/ Confirm({<<"y">>, <<"n">>})
    \/ SubmitMail

SpecSubject == InitCli /\ [][NextSubject]_vars

\* the window as the command line was given it
WindowText(r) == [from |-> DateText(r.from), to |-> DateText(r.to)]

====
